---- MODULE Spec2Model ----
(***************************************************************************)
(* Model of the chat orchestration pipeline of dipagt:                     *)
(*   ChatManager.process_message_stream  (the Orchestration Pipeline),     *)
(*   ChatManager.execute_action          (the Action Executor),            *)
(*   ToolManager.execute_tool / BaseTool.run (the Tool Dispatch Registry). *)
(* Each async generator is a coroutine with a program counter; an event it *)
(* yields is handed to its consumer before the generator is resumed.       *)
(***************************************************************************)
EXTENDS Integers, Sequences, FiniteSets, TLC

\* ---------------------------------------------------------------- bounds
\* Longest plan the planner returns.
MaxPlan == 2
\* Tool Events one tool may produce during one pipeline run (all actions).
MaxRunToolEvents == 1
\* Tool Events the tool may produce when execute_action is driven directly.
MaxToolEvents == 3
\* Calls of get_or_create_chat made one after the other.
MaxCalls == 3
\* Calls made on one ToolManager.
MaxToolOps == 3
\* Requests served by the chat endpoint, one after the other.
MaxRequests == 3
\* Calls of clear_runtime_data made one after the other.
MaxClears == 2
\* Concurrent calls of BrowserUseTool._run.
MaxInvocations == 2

\* ---------------------------------------------------------------- values
\* Python's None, for the optional chat id / owner / chat.
None == "<None>"

\* The inbound user message.
message == "Hello"

\* Chat ids: Chat rows stored before the run, and the id Chat.create hands out
\* for a new row, an id no stored row has.
StoredChats == {"c1"}
NewChatId(store) == "c" \o ToString(Cardinality(store) + 1)
ChatIdInputs == {None, "c1", "c9"}
OwnerInputs == {None, "alice"}

\* What memory_manager.get_relevant_history may return.
Histories == {<< >>, <<[role |-> "user", content |-> "earlier"]>>}

\* self.agents: the catalog loaded by initialize(), by agent name.
AgentCatalog == {"Copilot"}
\* Agent rows, AgentTool rows as (agent, tool name), and the names of the Tool
\* rows with is_active set; the links to an active Tool row.
DbAgents == {"Copilot"}
DbLinks == {<<"Copilot", "Answer">>, <<"Copilot", "TavilySearch">>, <<"Copilot", "Legacy">>}
DbActiveTools == {"Answer", "Legacy"}
DbActiveLinks == {l \in DbLinks : l[2] \in DbActiveTools}
\* ToolManager.tool_classes
ToolClasses == {"Answer", "Analyze", "BrowserUse", "CodeWriter", "CommandLineTool",
                "DesignGenerator", "MCPTool", "TavilySearch", "WebContentFetcher"}

\* planner.Action (parameters are not inspected by the pipeline)
\* parameters: the keys of the action's parameters.
ActionWith(agent, tool, keys) ==
    [agent_name |-> agent, action_type |-> tool, explanation |-> "why", parameters |-> keys]
Action(agent, tool) == ActionWith(agent, tool, {"query"})
Actions == {Action("Copilot", "Answer"), Action("Ghost", "x"), Action("Copilot", "Nope")}
\* Actions handed to execute_action directly: also one whose parameters hold a
\* key that execute_action passes itself.
DirectActions == Actions \cup {ActionWith("Copilot", "Answer", {"query", "message"})}

\* All plans of length at most n.
PlansUpTo(n) == UNION {[1..k -> Actions] : k \in 0..n}

\* Text of the content-chunk Tool Events.
ChunkContents == {"", "a", "b"}
ToolEvent(t, c) == [type |-> t, content |-> c]
NoToolEvent == ToolEvent("none", "")
\* What a tool's _run may yield: content chunks, a final event, an error event.
ToolEvents == {ToolEvent("content_chunk", c) : c \in ChunkContents}
              \cup {ToolEvent("final_info", ""), ToolEvent("error", "tool failed")}

\* The envelope of BaseTool.run / ToolManager.execute_tool.
Envelope(s, d, e) == [status |-> s, data |-> d, error |-> e]

\* An event of execute_action.
ActionEvent(t, c, m) ==
    [type |-> t, content |-> c, msg |-> m, agent_name |-> None, action_type |-> None]
\* The error event of the handler of execute_action.
FaultEvent(text, action) ==
    [type |-> "error", content |-> text, msg |-> 0, agent_name |-> action.agent_name,
     action_type |-> action.action_type]
NoEvent == ActionEvent("none", "", 0)

\* A Progress Event of process_message_stream.  index is -1 and msg is 0 where
\* the event carries none.
Ev(t, s, i, c, m) == [type |-> t, step |-> s, index |-> i, content |-> c, msg |-> m]
Progress(s, i, c, m) == Ev("progress", s, i, c, m)
Status(text) == Progress("status", -1, text, 0)

\* An exception: str(e) is prefix \o msg.
Exc(p, m) == [prefix |-> p, msg |-> m]
NoExc == Exc("", "")
ExcStr(e) == e.prefix \o e.msg

VARIABLES
    driver,                 \* "pipeline": a run of process_message_stream;
                            \* "direct": execute_action consumed by a plain loop
    chat_id, owner,         \* arguments of process_message_stream
    agents,                 \* self.agents, by agent name
    pc,                     \* position of process_message_stream
    chats,                  \* Chat table (ids)
    chat,                   \* the resolved chat
    messages,               \* Message table, in creation order
    memory,                 \* entries recorded by memory_manager.add_message
    history,                \* result of get_relevant_history
    context,                \* current_context
    plan,                   \* actions
    i,                      \* index of the action loop
    events,                 \* Progress Events emitted so far
    all_assistant_messages, \* all_assistant_messages
    assistant_message_data, \* assistant_message_data of the current action
    exc,                    \* the exception on its way to the outer handler
    ea_pc,                  \* position of the execute_action generator
    ea_out,                 \* the event execute_action has yielded, not yet consumed
    ea_events,              \* events yielded by the current execute_action call
    content_accumulator,    \* content_accumulator
    ts_pc,                  \* position of the execute_tool generator
    tool_events,            \* Tool Events the tool produced in the current call
    tool_count,             \* Tool Events produced since the run started
    heap,                   \* the list objects of concurrent runs, by reference
    runs,                   \* the concurrent runs of process_message_stream
    envelopes,              \* envelopes a consumer of execute_tool has received
    run_calls,              \* calls of a tool's run made by execute_tool
    tool_raised,            \* the tool's _run has raised
    calls,                  \* calls of get_or_create_chat made so far
    titles,                 \* title of each Chat row
    faulted,                \* the collaborator calls that failed inside
    tool_instances,         \* ToolManager.tool_instances, by tool name
    made,                   \* instances constructed and stored so far, by tool name
    handed,                 \* instances get_tool_instance has returned, by tool name
    last_op,                \* the last call made on the ToolManager
    n_ops,                  \* calls made on the ToolManager
    chat_manager,           \* routes._chat_manager: "none", "constructed" or "ready"
    http_pc,                \* position of the request that is being served
    responses,              \* the responses to the requests served so far
    handouts,               \* what get_chat_manager has returned, call by call
    browser_agent,          \* BrowserUseTool.agent of the shared instance
    invocations,            \* the calls of BrowserUseTool._run
    tasks,                  \* Task table
    config_tables,          \* Agent, Tool and AgentTool tables
    clears                  \* the calls of clear_runtime_data made so far

vars == <<driver, chat_id, owner, agents, pc, chats, chat, messages, memory, history, context,
          plan, i, events, all_assistant_messages, assistant_message_data, exc,
          ea_pc, ea_out, ea_events, content_accumulator, ts_pc, tool_events, tool_count,
          heap, runs, envelopes, run_calls, tool_raised, calls, titles, faulted,
          tool_instances, made, handed, last_op, n_ops, chat_manager, http_pc, responses,
          handouts, browser_agent, invocations, tasks, config_tables, clears>>

inputVars == <<driver, chat_id, owner, agents>>
storeVars == <<chats, messages, memory>>
runVars == <<chat, history, context, plan, i, all_assistant_messages,
             assistant_message_data, exc>>
eaVars == <<ea_pc, ea_out, ea_events, content_accumulator, ts_pc, tool_events, tool_count>>
concVars == <<heap, runs>>
toolVars == <<envelopes, run_calls, tool_raised>>
callVars == <<calls>>
collabVars == <<titles, faulted>>
tmVars == <<tool_instances, made, handed, last_op, n_ops>>
\* State of the other services of the server.
httpVars == <<chat_manager, http_pc, responses, handouts>>
clearVars == <<tasks, config_tables, clears>>
browserVars == <<browser_agent, invocations>>
serviceVars == <<tmVars, httpVars, clearVars, browserVars>>
\* State that the executor leaves alone.
otherVars == <<concVars, toolVars, callVars, collabVars, serviceVars>>
\* State that one run of the pipeline leaves alone.
sideVars == <<concVars, toolVars, callVars, serviceVars>>

\* ---------------------------------------------------------------- helpers
RECURSIVE JoinStr(_)
\* "".join(seq)
JoinStr(seq) == IF seq = << >> THEN "" ELSE Head(seq) \o JoinStr(Tail(seq))

RECURSIVE JoinLines(_)
\* "\n".join(seq)
JoinLines(seq) ==
    IF seq = << >> THEN ""
    ELSE IF Len(seq) = 1 THEN Head(seq)
    ELSE Head(seq) \o "\n" \o JoinLines(Tail(seq))

\* The subsequence of the elements of seq that satisfy Test.
RECURSIVE SelectSeqOf(_, _)
SelectSeqOf(seq, S) ==
    IF seq = << >> THEN << >>
    ELSE IF Head(seq) \in S THEN <<Head(seq)>> \o SelectSeqOf(Tail(seq), S)
    ELSE SelectSeqOf(Tail(seq), S)

Emit(evs, new) == evs \o new

\* Message.create: the row gets the next id.
NewMessage(store, c, r, txt, agent) ==
    [id |-> Len(store) + 1, chat |-> c, role |-> r, content |-> txt, agent_id |-> agent]

\* memory_manager.add_message: records the entry; never raises to the caller.
MemoryAdd(mem, r, txt) == Append(mem, [role |-> r, content |-> txt])

\* add_message with its faults: a fault inside the collaborator (no client, a
\* failing mem0 call) is logged and the entry skipped.
AddMessage(mem, r, txt, fault) == IF fault THEN mem ELSE MemoryAdd(mem, r, txt)

\* get_relevant_history with its faults: a fault inside the collaborator gives
\* the empty history.
GetRelevantHistory(found, fault) == IF fault THEN << >> ELSE found

\* The collaborator calls that failed inside, s added when fault.
Faulted(set, s, fault) == IF fault THEN set \cup {s} ELSE set

\* ------------------------------------------------- Tool Dispatch Registry
\* Faulty variant of Resolve: is_active is not looked at.
Resolve_NoActiveCheck(action) ==
    IF action.agent_name \notin DbAgents THEN "agent_not_found"
    ELSE IF <<action.agent_name, action.action_type>> \notin DbLinks
    THEN "not_authorized"
    ELSE IF action.action_type \notin ToolClasses THEN "no_instance"
    ELSE "ok"

\* ToolManager.execute_tool up to the dispatch: the agent row, the link to an
\* active tool of that name, the tool instance.
Resolve(action) ==
    IF action.agent_name \notin DbAgents THEN "agent_not_found"
    ELSE IF <<action.agent_name, action.action_type>> \notin DbActiveLinks
    THEN "not_authorized"
    ELSE IF action.action_type \notin ToolClasses THEN "no_instance"
    ELSE "ok"

\* The error text of the envelope a failed resolution yields.
ResolveError(action, r) ==
    IF r = "agent_not_found" THEN "Agent '" \o action.agent_name \o "' not found"
    ELSE IF r = "not_authorized"
    THEN "Agent '" \o action.agent_name \o "' does not have permission to use tool '"
         \o action.action_type \o "' or tool is inactive"
    ELSE "Tool '" \o action.action_type \o "' not found or could not be instantiated"

\* BaseTool.run: a Tool Event of _run is wrapped as a success envelope.
WrapSuccess(e) == Envelope("success", e, "")
\* BaseTool.run: a fault of _run becomes one error envelope.
WrapFault(text) == Envelope("error", NoToolEvent, text)

\* Tool Events the tool may still produce.
ToolBudget == IF driver \in {"direct", "registry"} THEN MaxToolEvents ELSE MaxRunToolEvents

\* ------------------------------------------------------- Action Executor
\* Faulty variant of Truthy: every chunk is taken, the empty ones too.
Truthy_Always(c) == TRUE

\* Truth value of chunk_content in "if chunk_content:".
Truthy(c) == c # ""

\* Faulty variant of PyStr: repr() in place of str().
PyStr_Repr(c) == "'" \o c \o "'"

\* str(chunk_content): the text of a chunk is already a str.
PyStr(c) == c

\* full_content: the chunks joined, the placeholder when that is empty.
Placeholder == "(Action produced no text content)"

\* Faulty variant of FullContent: no placeholder for an empty content.
FullContent_Blank(acc) == JoinStr(acc)

\* The content of the message: the chunks joined, or the placeholder.
FullContent(acc) == IF JoinStr(acc) = "" THEN Placeholder ELSE JoinStr(acc)

\* Faulty variant of HandleEnvelope: no return after the error event.
HandleEnvelope_NoReturn(env, acc) ==
    IF env.status = "error"
    THEN [out |-> ActionEvent("error", env.error, 0), acc |-> acc, pc |-> "loop"]
    ELSE IF env.data.type = "content_chunk" /\ Truthy(env.data.content)
    THEN [out |-> ActionEvent("message_chunk", env.data.content, 0),
          acc |-> Append(acc, PyStr(env.data.content)), pc |-> "loop"]
    ELSE [out |-> NoEvent, acc |-> acc, pc |-> "loop"]

\* Faulty variant of HandleEnvelope: the newest chunk is put first.
HandleEnvelope_Prepend(env, acc) ==
    IF env.status = "error"
    THEN [out |-> ActionEvent("error", env.error, 0), acc |-> acc, pc |-> "returned"]
    ELSE IF env.data.type = "content_chunk" /\ Truthy(env.data.content)
    THEN [out |-> ActionEvent("message_chunk", env.data.content, 0),
          acc |-> <<PyStr(env.data.content)>> \o acc, pc |-> "loop"]
    ELSE [out |-> NoEvent, acc |-> acc, pc |-> "loop"]

\* One iteration of "async for chunk in tool_stream": what execute_action
\* yields (NoEvent: nothing), its accumulator, and where it goes on.
HandleEnvelope(env, acc) ==
    IF env.status = "error"
    THEN [out |-> ActionEvent("error", env.error, 0), acc |-> acc, pc |-> "returned"]
    ELSE IF env.data.type = "content_chunk" /\ Truthy(env.data.content)
    THEN [out |-> ActionEvent("message_chunk", env.data.content, 0),
          acc |-> Append(acc, PyStr(env.data.content)), pc |-> "loop"]
    ELSE [out |-> NoEvent, acc |-> acc, pc |-> "loop"]

CurAction == plan[i + 1]

\* The generator runs only while its consumer is waiting for the next event.
EaRunning == pc \in {"consume", "direct"} /\ ea_out = NoEvent

\* execute_action yields ev.
EaYield(ev) ==
    /\ ea_out' = ev
    /\ ea_events' = IF ev = NoEvent THEN ea_events ELSE Append(ea_events, ev)

\* Faulty variant of EA_Start: an agent missing from the catalog is passed on
\* to the registry.
EA_Start_Fallback ==
    /\ EaRunning
    /\ ea_pc = "start"
    /\ content_accumulator' = << >>
    /\ ts_pc' = "start"
    /\ ea_pc' = "loop"
    /\ UNCHANGED <<ea_out, ea_events>>
    /\ UNCHANGED <<inputVars, otherVars, pc, storeVars, runVars, events, tool_events,
                   tool_count>>

\* Faulty variant of EA_Start: an agent the catalog does not hold is added to
\* it and the action goes on.
EA_Start_Registers ==
    /\ EaRunning
    /\ ea_pc = "start"
    /\ agents' = agents \cup {CurAction.agent_name}
    /\ content_accumulator' = << >>
    /\ ts_pc' = "start"
    /\ ea_pc' = "loop"
    /\ UNCHANGED <<ea_out, ea_events>>
    /\ UNCHANGED <<driver, chat_id, owner, otherVars, pc, storeVars, runVars, events,
                   tool_events, tool_count>>

\* The keyword arguments execute_action passes to execute_tool itself.
ReservedArguments == {"agent_name", "tool_name", "conversation_context", "message"}
\* The keys of **action.parameters that repeat one of them.
Collisions(action) == action.parameters \cap ReservedArguments
\* str() of the TypeError of a call with a repeated keyword argument.
CollisionText == "ToolManager.execute_tool() got multiple values for keyword argument"

\* Faulty variant of OnFault: the error event names neither agent nor tool.
OnFault_Bare(text, action) == ActionEvent("error", text, 0)

\* "except Exception as e" of execute_action: one error event with str(e) and
\* the names of the agent and of the tool.
OnFault(text, action) == FaultEvent(text, action)

\* execute_action from its start to the tool stream: the agent lookup and the
\* call of execute_tool.
EA_Start ==
    /\ EaRunning
    /\ ea_pc = "start"
    /\ IF CurAction.agent_name \notin agents
       THEN /\ EaYield(ActionEvent("error",
                           "Agent " \o CurAction.agent_name \o " not found", 0))
            /\ ea_pc' = "returned"
            /\ UNCHANGED <<content_accumulator, ts_pc>>
       ELSE IF Collisions(CurAction) # {}
       THEN /\ EaYield(OnFault(CollisionText, CurAction))
            /\ content_accumulator' = << >>
            /\ ea_pc' = "returned"
            /\ UNCHANGED ts_pc
       ELSE /\ content_accumulator' = << >>
            /\ ts_pc' = "start"
            /\ ea_pc' = "loop"
            /\ UNCHANGED <<ea_out, ea_events>>
    /\ UNCHANGED <<inputVars, otherVars, pc, storeVars, runVars, events, tool_events, tool_count>>

\* execute_action takes env from the tool stream.
EaTake(env) ==
    LET h == HandleEnvelope(env, content_accumulator) IN
    /\ EaYield(h.out)
    /\ content_accumulator' = h.acc
    /\ ea_pc' = h.pc

\* The tool behind execute_tool can still be asked for an event: the
\* resolution succeeded (or will), and its stream has not ended.
ToolLive == ts_pc = "relay" \/ (ts_pc = "start" /\ Resolve(CurAction) = "ok")

\* execute_action pulls the next envelope of execute_tool: the resolution
\* fails, or the tool produces an event, raises, or ends its stream.
EA_Pull ==
    /\ EaRunning
    /\ ea_pc = "loop"
    /\ \/ /\ ts_pc = "start"
          /\ Resolve(CurAction) # "ok"
          /\ EaTake(Envelope("error", NoToolEvent,
                             ResolveError(CurAction, Resolve(CurAction))))
          /\ ts_pc' = "ended"
          /\ UNCHANGED <<tool_events, tool_count>>
       \/ /\ ToolLive
          /\ tool_count < ToolBudget
          /\ \E e \in ToolEvents :
                /\ EaTake(WrapSuccess(e))
                /\ tool_events' = Append(tool_events, e)
          /\ tool_count' = tool_count + 1
          /\ ts_pc' = "relay"
       \/ /\ ToolLive
          /\ EaTake(WrapFault("tool raised"))
          /\ ts_pc' = "ended"
          /\ UNCHANGED <<tool_events, tool_count>>
       \/ /\ ToolLive \/ ts_pc = "ended"
          /\ ts_pc' = "ended"
          /\ ea_pc' = "save"
          /\ UNCHANGED <<ea_out, ea_events, content_accumulator, tool_events, tool_count>>
    /\ UNCHANGED <<inputVars, otherVars, pc, storeVars, runVars, events>>

\* Faulty variant of EA_Save: the row is written also when the save ends in
\* the error event.
EA_Save_RowOnFault ==
    /\ EaRunning
    /\ ea_pc = "save"
    /\ LET m == NewMessage(messages, chat, "assistant",
                           FullContent(content_accumulator), CurAction.agent_name) IN
       /\ messages' = Append(messages, m)
       /\ \/ /\ EaYield(ActionEvent("message_saved", m.content, m.id))
             /\ ea_pc' = "saved"
          \/ /\ EaYield(OnFault("database is locked", CurAction))
             /\ ea_pc' = "returned"
    /\ UNCHANGED <<inputVars, otherVars, pc, chats, memory, runVars, events, content_accumulator,
                   ts_pc, tool_events, tool_count>>

\* The stream has ended: compose the content, Message.create, message_saved;
\* a fault of Message.create is caught by the handler of execute_action.
EA_Save ==
    /\ EaRunning
    /\ ea_pc = "save"
    /\ \/ LET m == NewMessage(messages, chat, "assistant",
                              FullContent(content_accumulator), CurAction.agent_name) IN
          /\ messages' = Append(messages, m)
          /\ EaYield(ActionEvent("message_saved", m.content, m.id))
          /\ ea_pc' = "saved"
       \/ /\ EaYield(OnFault("database is locked", CurAction))
          /\ ea_pc' = "returned"
          /\ UNCHANGED messages
    /\ UNCHANGED <<inputVars, otherVars, pc, chats, memory, runVars, events, content_accumulator,
                   ts_pc, tool_events, tool_count>>

\* The consumer asks for more after a terminal event: the generator returns.
EA_Finish ==
    /\ EaRunning
    /\ driver = "direct"
    /\ ea_pc \in {"returned", "saved"}
    /\ ea_pc' = "end"
    /\ UNCHANGED <<inputVars, otherVars, pc, storeVars, runVars, events, ea_out, ea_events,
                   content_accumulator, ts_pc, tool_events, tool_count>>

\* A plain "async for" over execute_action takes the event and asks for more.
D_Consume ==
    /\ pc = "direct"
    /\ ea_out # NoEvent
    /\ ea_out' = NoEvent
    /\ UNCHANGED <<inputVars, otherVars, pc, storeVars, runVars, events, ea_pc, ea_events,
                   content_accumulator, ts_pc, tool_events, tool_count>>

\* ------------------------------------------------ Orchestration Pipeline
\* message.split(): the words of the inbound message.
MessageWords == <<"Hello">>
\* generated_title[:100] and message_content.split()[:5]
TitleLimit == 100
TitleWords == 5

\* What the LLM answers to the title prompt: it raises, or returns a content
\* (a sequence of characters).
TitleRaised == [raised |-> TRUE, content |-> << >>]
TitleContent(chars) == [raised |-> FALSE, content |-> chars]
LongTitle == [k \in 1..(TitleLimit + 1) |-> "x"]
AllTitleReplies == {TitleRaised, TitleContent(<< >>), TitleContent(<<" ", "\"", " ">>),
                    TitleContent(<<" ", "\"", "H", "i", "\"", " ">>), TitleContent(LongTitle)}
\* The collaborators of a run fail only in a degraded run; the title LLM of a
\* sound run answers with a title.
Degraded == driver = "degraded"
TitleReplies ==
    IF driver = "pipeline" THEN {TitleContent(<<" ", "\"", "H", "i", "\"", " ">>)}
    ELSE AllTitleReplies
FaultChoices == IF Degraded THEN BOOLEAN ELSE {FALSE}

RECURSIVE StripLeft(_)
\* str.lstrip() / str.rstrip() / str.strip() for the blank " "
StripLeft(chars) ==
    IF chars # << >> /\ Head(chars) = " " THEN StripLeft(Tail(chars)) ELSE chars
RECURSIVE StripRight(_)
StripRight(chars) ==
    IF chars # << >> /\ chars[Len(chars)] = " "
    THEN StripRight(SubSeq(chars, 1, Len(chars) - 1)) ELSE chars
Strip(chars) == StripRight(StripLeft(chars))
IsNotQuote(c) == c # "\""
\* str.replace('"', '')
Unquote(chars) == SelectSeq(chars, IsNotQuote)
\* seq[:n]
Take(seq, n) == SubSeq(seq, 1, IF Len(seq) < n THEN Len(seq) ELSE n)
RECURSIVE JoinWords(_)
\* ' '.join(words)
JoinWords(words) ==
    IF words = << >> THEN ""
    ELSE IF Len(words) = 1 THEN Head(words)
    ELSE Head(words) \o " " \o JoinWords(Tail(words))

\* The fallback title: the first words of the message and an ellipsis.
FallbackTitle(words) == JoinWords(Take(words, TitleWords)) \o "..."

\* Faulty variant of GenerateChatTitle: a fault of the LLM call is raised to
\* the caller.
GenerateChatTitle_Propagates(words, reply) ==
    IF reply.raised
    THEN [raised |-> TRUE, failed |-> TRUE, title |-> ""]
    ELSE LET t == Unquote(Strip(reply.content)) IN
         IF t # << >>
         THEN [raised |-> FALSE, failed |-> FALSE, title |-> JoinStr(Take(t, TitleLimit))]
         ELSE [raised |-> FALSE, failed |-> TRUE, title |-> FallbackTitle(words)]

\* _generate_chat_title: the title the LLM gave, cut to the limit, or the
\* fallback title when the LLM raised or gave none; it raises nothing.
GenerateChatTitle(words, reply) ==
    IF reply.raised
    THEN [raised |-> FALSE, failed |-> TRUE, title |-> FallbackTitle(words)]
    ELSE LET t == Unquote(Strip(reply.content)) IN
         IF t # << >>
         THEN [raised |-> FALSE, failed |-> FALSE, title |-> JoinStr(Take(t, TitleLimit))]
         ELSE [raised |-> FALSE, failed |-> TRUE, title |-> FallbackTitle(words)]

\* The title of a chat that is created: "New Chat" without a first message
\* (first_message is the words of the message, none when there is no message).
ChatTitle(first_message, reply) ==
    IF first_message = << >>
    THEN [raised |-> FALSE, failed |-> FALSE, title |-> "New Chat"]
    ELSE GenerateChatTitle(first_message, reply)

\* Faulty variant of GetOrCreateChat: a chat is created for every call with
\* an owner.
GetOrCreateChat_AlwaysCreate(cid, own, store) ==
    IF own = None
    THEN [ok |-> FALSE, chat |-> None, chats |-> store,
          err |-> "Owner is required to create a new chat"]
    ELSE [ok |-> TRUE, chat |-> NewChatId(store), chats |-> store \cup {NewChatId(store)},
          err |-> ""]

\* Faulty variant of GetOrCreateChat: an id that names no chat is an error.
GetOrCreateChat_Strict(cid, own, store) ==
    IF cid # None /\ cid \in store
    THEN [ok |-> TRUE, chat |-> cid, chats |-> store, err |-> ""]
    ELSE IF cid # None
    THEN [ok |-> FALSE, chat |-> None, chats |-> store, err |-> "Chat not found"]
    ELSE IF own = None
    THEN [ok |-> FALSE, chat |-> None, chats |-> store,
          err |-> "Owner is required to create a new chat"]
    ELSE [ok |-> TRUE, chat |-> NewChatId(store), chats |-> store \cup {NewChatId(store)},
          err |-> ""]

\* Faulty variant of GetOrCreateChat: a chat without an owner is created.
GetOrCreateChat_Anonymous(cid, own, store) ==
    IF cid # None /\ cid \in store
    THEN [ok |-> TRUE, chat |-> cid, chats |-> store, err |-> ""]
    ELSE [ok |-> TRUE, chat |-> NewChatId(store), chats |-> store \cup {NewChatId(store)},
          err |-> ""]

\* get_or_create_chat: the chat found by its id, or a new one for the owner.
GetOrCreateChat(cid, own, store) ==
    IF cid # None /\ cid \in store
    THEN [ok |-> TRUE, chat |-> cid, chats |-> store, err |-> ""]
    ELSE IF own = None
    THEN [ok |-> FALSE, chat |-> None, chats |-> store,
          err |-> "Owner is required to create a new chat"]
    ELSE [ok |-> TRUE, chat |-> NewChatId(store), chats |-> store \cup {NewChatId(store)},
          err |-> ""]

\* The context entry synthesized for a finished action.
ContextMessage(action, content) ==
    [role |-> "assistant",
     content |-> "agent: " \o action.agent_name \o " agent action: " \o action.action_type
                 \o " agent explanation: " \o action.explanation
                 \o " agent result: " \o content]

\* Faulty variant of InnerExcept: action_error is emitted again for the
\* exception that was raised after action_error.
InnerExcept_Always(e, idx) == <<Progress("action_error", idx, ExcStr(e), 0)>>

\* The handler around one action: the events it adds for the exception e.
InnerExcept(e, idx) ==
    IF e.prefix = "Action failed: " THEN << >>
    ELSE <<Progress("action_error", idx, ExcStr(e), 0)>>

\* Faulty variant of DoneEvent: the first assistant message is sent.
DoneEvent_First(aam) ==
    IF aam # << >>
    THEN Ev("done", "", -1, aam[1].content, aam[1].msg)
    ELSE Ev("done", "", -1, "", 0)

\* The payload of the final event: the last assistant message, if any.
DoneEvent(aam) ==
    IF aam # << >>
    THEN Ev("done", "", -1, aam[Len(aam)].content, aam[Len(aam)].msg)
    ELSE Ev("done", "", -1, "", 0)

\* The exception e leaves the try block of process_message_stream.
Raise(e) ==
    /\ exc' = e
    /\ pc' = "fatal"

\* Faulty variant of P_ResolveChat: chat_created is emitted for every run
\* that has a chat.
P_ResolveChat_Announce ==
    /\ pc = "init"
    /\ LET r == GetOrCreateChat(chat_id, owner, chats)
           first == <<Status("Initializing chat...")>> IN
       \/ IF ~r.ok
          THEN /\ Raise(Exc("", r.err))
               /\ events' = Emit(events, first)
               /\ UNCHANGED <<chats, chat, collabVars>>
          ELSE \E reply \in (IF r.chat \in chats THEN {TitleRaised} ELSE TitleReplies) :
               LET t == ChatTitle(IF chat_id = None THEN MessageWords ELSE << >>, reply) IN
               IF r.chat \notin chats /\ t.raised
               THEN /\ Raise(Exc("", "LLM unavailable"))
                    /\ events' = Emit(events, first)
                    /\ UNCHANGED <<chats, chat, collabVars>>
               ELSE /\ chats' = r.chats
                    /\ chat' = r.chat
                    /\ titles' = [c \in r.chats |->
                                     IF c \in chats THEN titles[c] ELSE t.title]
                    /\ faulted' = IF r.chat \notin chats /\ t.failed
                                    THEN faulted \cup {"title"} ELSE faulted
                    /\ events' = Emit(events, first \o
                            <<Progress("chat_created", -1, r.chat, 0)>>)
                    /\ pc' = "history"
                    /\ exc' = exc
       \/ /\ Raise(Exc("", "database is locked"))
          /\ events' = Emit(events, first)
          /\ UNCHANGED <<chats, chat, collabVars>>
    /\ UNCHANGED <<inputVars, sideVars, messages, memory, history, context, plan, i,
                   all_assistant_messages, assistant_message_data, eaVars>>

\* Step 1: the chat is resolved, a new chat under the title that was generated
\* for it; chat_created for a run without a chat id. The Chat table may fail.
P_ResolveChat ==
    /\ pc = "init"
    /\ LET r == GetOrCreateChat(chat_id, owner, chats)
           first == <<Status("Initializing chat...")>> IN
       \/ IF ~r.ok
          THEN /\ Raise(Exc("", r.err))
               /\ events' = Emit(events, first)
               /\ UNCHANGED <<chats, chat, collabVars>>
          ELSE \E reply \in (IF r.chat \in chats THEN {TitleRaised} ELSE TitleReplies) :
               LET t == ChatTitle(IF chat_id = None THEN MessageWords ELSE << >>, reply) IN
               IF r.chat \notin chats /\ t.raised
               THEN /\ Raise(Exc("", "LLM unavailable"))
                    /\ events' = Emit(events, first)
                    /\ UNCHANGED <<chats, chat, collabVars>>
               ELSE /\ chats' = r.chats
                    /\ chat' = r.chat
                    /\ titles' = [c \in r.chats |->
                                     IF c \in chats THEN titles[c] ELSE t.title]
                    /\ faulted' = IF r.chat \notin chats /\ t.failed
                                    THEN faulted \cup {"title"} ELSE faulted
                    /\ events' = Emit(events, first \o
                            (IF chat_id = None
                             THEN <<Progress("chat_created", -1, r.chat, 0)>> ELSE << >>))
                    /\ pc' = "history"
                    /\ exc' = exc
       \/ /\ Raise(Exc("", "database is locked"))
          /\ events' = Emit(events, first)
          /\ UNCHANGED <<chats, chat, collabVars>>
    /\ UNCHANGED <<inputVars, sideVars, messages, memory, history, context, plan, i,
                   all_assistant_messages, assistant_message_data, eaVars>>

\* Faulty variant of P_History: a fault inside the memory collaborator is
\* raised into the run.
P_History_Raises ==
    /\ pc = "history"
    /\ \E found \in Histories, fault \in FaultChoices :
          IF fault
          THEN /\ Raise(Exc("", "mem0 unavailable"))
               /\ events' = Emit(events, <<Status("Retrieving relevant history...")>>)
               /\ faulted' = Faulted(faulted, "history", fault)
               /\ UNCHANGED history
          ELSE /\ history' = found
               /\ events' = Emit(events, <<Status("Retrieving relevant history..."),
                                           Progress("history_retrieved", Len(found), "", 0)>>)
               /\ pc' = "save_user"
               /\ UNCHANGED <<exc, faulted>>
    /\ UNCHANGED <<inputVars, sideVars, titles, storeVars, chat, context, plan, i,
                   all_assistant_messages, assistant_message_data, eaVars>>

\* Step 2: the relevant history, whatever the memory collaborator returns.
P_History ==
    /\ pc = "history"
    /\ \E found \in Histories, fault \in FaultChoices :
          LET h == GetRelevantHistory(found, fault) IN
          /\ history' = h
          /\ faulted' = Faulted(faulted, "history", fault)
          /\ events' = Emit(events, <<Status("Retrieving relevant history..."),
                                      Progress("history_retrieved", Len(h), "", 0)>>)
    /\ pc' = "save_user"
    /\ UNCHANGED <<inputVars, sideVars, titles, storeVars, chat, context, plan, i,
                   all_assistant_messages, assistant_message_data, exc, eaVars>>

\* Step 3: the user message is stored and recorded to memory; Message.create
\* may fail.
P_SaveUser ==
    /\ pc = "save_user"
    /\ \/ \E fault \in FaultChoices :
          LET m == NewMessage(messages, chat, "user", message, "") IN
          /\ messages' = Append(messages, m)
          /\ memory' = AddMessage(memory, "user", message, fault)
          /\ faulted' = Faulted(faulted, "add_user", fault)
          /\ events' = Emit(events, <<Status("Saving user message..."),
                                      Progress("user_message_saved", -1, m.content, m.id)>>)
          /\ pc' = "intent"
          /\ exc' = exc
       \/ /\ events' = Emit(events, <<Status("Saving user message...")>>)
          /\ Raise(Exc("", "database is locked"))
          /\ UNCHANGED <<messages, memory, faulted>>
    /\ UNCHANGED <<inputVars, sideVars, titles, chats, chat, history, context, plan, i,
                   all_assistant_messages, assistant_message_data, eaVars>>

\* Faulty variant of Recognize: a fault of the LLM call is raised to the caller.
Recognize_Raises(llm_raised) ==
    IF llm_raised THEN [raised |-> TRUE, intent |-> ""]
    ELSE [raised |-> FALSE, intent |-> "greeting"]

\* IntentionRecognizer.recognize: the intention the LLM gave; a fault of the
\* LLM call is caught and comes back as the "error" intention.
Recognize(llm_raised) ==
    IF llm_raised THEN [raised |-> FALSE, intent |-> "error"]
    ELSE [raised |-> FALSE, intent |-> "greeting"]

\* Step 4: the context is seeded and the intention recognized; a fault of the
\* recognizer's LLM call comes back as the "error" intention.
P_Intent ==
    /\ pc = "intent"
    /\ context' = history \o <<[role |-> "user", content |-> message]>>
    /\ \E llm_raised \in BOOLEAN :
          LET intention == Recognize(llm_raised) IN
          IF intention.raised
          THEN /\ Raise(Exc("", "LLM unavailable"))
               /\ events' = Emit(events, <<Status("Recognizing intention...")>>)
               /\ faulted' = Faulted(faulted, "recognizer", llm_raised)
          ELSE /\ events' = Emit(events, <<Status("Recognizing intention..."),
                                           Progress("intention_recognized", -1,
                                                    intention.intent, 0)>>)
               /\ faulted' = Faulted(faulted, "recognizer", llm_raised)
               /\ pc' = "plan"
               /\ exc' = exc
    /\ UNCHANGED <<inputVars, sideVars, titles, storeVars, chat, history, plan, i,
                   all_assistant_messages, assistant_message_data, eaVars>>

\* Step 5: the plan; the planner's LLM call may raise.
P_Plan ==
    /\ pc = "plan"
    /\ \/ \E p \in PlansUpTo(MaxPlan) :
             /\ plan' = p
             /\ events' = Emit(events, <<Status("Generating action plan..."),
                                         Progress("plan_generated", Len(p), "", 0),
                                         Status("Executing actions...")>>)
             /\ i' = 0
             /\ all_assistant_messages' = << >>
             /\ pc' = "loop"
             /\ exc' = exc
       \/ /\ events' = Emit(events, <<Status("Generating action plan...")>>)
          /\ Raise(Exc("", "llm unavailable"))
          /\ UNCHANGED <<plan, i, all_assistant_messages>>
    /\ UNCHANGED <<inputVars, otherVars, storeVars, chat, history, context,
                   assistant_message_data, eaVars>>

\* Faulty variant of P_ActionStart: the actions are numbered from 1.
P_ActionStart_FromOne ==
    /\ pc = "loop"
    /\ i < Len(plan)
    /\ events' = Emit(events, <<Progress("action_started", i + 1, CurAction.agent_name, 0)>>)
    /\ assistant_message_data' = NoEvent
    /\ ea_pc' = "start"
    /\ ea_out' = NoEvent
    /\ ea_events' = << >>
    /\ content_accumulator' = << >>
    /\ ts_pc' = "start"
    /\ tool_events' = << >>
    /\ pc' = "consume"
    /\ UNCHANGED <<inputVars, otherVars, storeVars, chat, history, context, plan, i,
                   all_assistant_messages, exc, tool_count>>

\* Step 6, top of the loop: action_started, and execute_action is called.
P_ActionStart ==
    /\ pc = "loop"
    /\ i < Len(plan)
    /\ events' = Emit(events, <<Progress("action_started", i, CurAction.agent_name, 0)>>)
    /\ assistant_message_data' = NoEvent
    /\ ea_pc' = "start"
    /\ ea_out' = NoEvent
    /\ ea_events' = << >>
    /\ content_accumulator' = << >>
    /\ ts_pc' = "start"
    /\ tool_events' = << >>
    /\ pc' = "consume"
    /\ UNCHANGED <<inputVars, otherVars, storeVars, chat, history, context, plan, i,
                   all_assistant_messages, exc, tool_count>>

\* Faulty variant of AfterLoop: the saved message is kept, the context is not
\* extended.
AfterLoop_NoContext(amd, evs) ==
    IF amd # NoEvent
    THEN /\ all_assistant_messages' = Append(all_assistant_messages, amd)
         /\ events' = evs
         /\ UNCHANGED context
    ELSE /\ events' = Emit(evs, <<Progress("action_error", i,
                                           "Action stream ended unexpectedly", 0)>>)
         /\ UNCHANGED <<all_assistant_messages, context>>

\* Faulty variant of AfterLoop: a stream without a terminal event leaves an
\* empty entry in the context.
AfterLoop_EmptyEntry(amd, evs) ==
    IF amd # NoEvent
    THEN /\ all_assistant_messages' = Append(all_assistant_messages, amd)
         /\ context' = Append(context, ContextMessage(CurAction, amd.content))
         /\ events' = evs
    ELSE /\ events' = Emit(evs, <<Progress("action_error", i,
                                           "Action stream ended unexpectedly", 0)>>)
         /\ context' = Append(context, ContextMessage(CurAction, ""))
         /\ UNCHANGED all_assistant_messages

\* After the loop over the events of one action (evs: the events emitted so
\* far): the saved message is kept and added to the context, or the stream
\* ended with no terminal event.
AfterLoop(amd, evs) ==
    IF amd # NoEvent
    THEN /\ all_assistant_messages' = Append(all_assistant_messages, amd)
         /\ context' = Append(context, ContextMessage(CurAction, amd.content))
         /\ events' = evs
    ELSE /\ events' = Emit(evs, <<Progress("action_error", i,
                                           "Action stream ended unexpectedly", 0)>>)
         /\ UNCHANGED <<all_assistant_messages, context>>

\* Faulty variant of OnActionError: the loop goes on to the next action.
OnActionError_Continue(e) ==
    /\ i' = i + 1
    /\ pc' = "loop"
    /\ UNCHANGED <<exc, all_assistant_messages, context, assistant_message_data>>

\* The error branch of the loop, after action_error: the exception raised to
\* stop the run passes the handler around the action and leaves the try block.
OnActionError(e) ==
    /\ Raise(e)
    /\ UNCHANGED <<i, all_assistant_messages, context, assistant_message_data>>

\* Step 6, body of the loop: one event of execute_action is handled.
P_OnEvent ==
    /\ pc = "consume"
    /\ ea_out # NoEvent \/ ea_pc = "end"
    /\ ea_out' = NoEvent
    /\ IF ea_pc = "end"
       THEN /\ AfterLoop(assistant_message_data, events)
            /\ i' = i + 1
            /\ pc' = "loop"
            /\ UNCHANGED <<assistant_message_data, exc>>
       ELSE IF ea_out.type = "message_chunk"
       THEN /\ events' = Emit(events, <<Progress("message_chunk", i, ea_out.content, 0)>>)
            /\ UNCHANGED <<pc, i, all_assistant_messages, context,
                           assistant_message_data, exc>>
       ELSE IF ea_out.type = "message_saved"
       THEN /\ assistant_message_data' = ea_out
            /\ AfterLoop(ea_out, Emit(events, <<Progress("action_result", i,
                                                         ea_out.content, ea_out.msg)>>))
            /\ i' = i + 1
            /\ pc' = "loop"
            /\ exc' = exc
       ELSE LET e == Exc("Action failed: ", ea_out.content) IN
            /\ events' = Emit(events, <<Progress("action_error", i, ea_out.content, 0)>>
                                      \o InnerExcept(e, i))
            /\ OnActionError(e)
    /\ UNCHANGED <<inputVars, otherVars, storeVars, chat, history, plan, ea_pc, ea_events,
                   content_accumulator, ts_pc, tool_events, tool_count>>

\* Faulty variant of CombinedContent: only the last message is recorded.
CombinedContent_Last(aam) ==
    IF aam = << >> THEN "" ELSE aam[Len(aam)].content

\* The contents recorded to memory at step 7.
CombinedContent(aam) ==
    JoinLines(SelectSeqOf([k \in 1..Len(aam) |-> aam[k].content],
                          {c \in {aam[k].content : k \in 1..Len(aam)} : c # ""}))

\* Faulty variant of P_Finish: a run without an assistant message is a failure.
P_Finish_EmptyIsError ==
    /\ pc = "loop"
    /\ i >= Len(plan)
    /\ IF all_assistant_messages # << >> /\ CombinedContent(all_assistant_messages) # ""
       THEN /\ \E fault \in FaultChoices :
                  /\ memory' = AddMessage(memory, "assistant",
                                          CombinedContent(all_assistant_messages), fault)
                  /\ faulted' = Faulted(faulted, "add_assistant", fault)
            /\ events' = Emit(events, <<Status("Saving assistant responses to memory..."),
                                        DoneEvent(all_assistant_messages)>>)
            /\ pc' = "terminated"
            /\ UNCHANGED runVars
       ELSE /\ Raise(Exc("", "No assistant message"))
            /\ UNCHANGED <<memory, faulted, events, chat, history, context, plan, i,
                           all_assistant_messages, assistant_message_data>>
    /\ UNCHANGED <<inputVars, sideVars, titles, chats, messages, eaVars>>

\* Steps 7 and 8: the assistant responses go to memory, then the final event.
P_Finish ==
    /\ pc = "loop"
    /\ i >= Len(plan)
    /\ IF all_assistant_messages # << >> /\ CombinedContent(all_assistant_messages) # ""
       THEN /\ \E fault \in FaultChoices :
                  /\ memory' = AddMessage(memory, "assistant",
                                          CombinedContent(all_assistant_messages), fault)
                  /\ faulted' = Faulted(faulted, "add_assistant", fault)
            /\ events' = Emit(events, <<Status("Saving assistant responses to memory..."),
                                        DoneEvent(all_assistant_messages)>>)
       ELSE /\ events' = Emit(events, <<DoneEvent(all_assistant_messages)>>)
            /\ UNCHANGED <<memory, faulted>>
    /\ pc' = "terminated"
    /\ UNCHANGED <<inputVars, sideVars, titles, chats, messages, runVars, eaVars>>

\* Faulty variant of P_Fatal: the outer handler catches only the faults raised
\* outside the action loop; an action failure is never handled.
P_Fatal_Narrow ==
    /\ pc = "fatal"
    /\ exc.prefix # "Action failed: "
    /\ events' = Emit(events, <<Progress("fatal_error", -1, ExcStr(exc), 0)>>)
    /\ pc' = "fatal_done"
    /\ UNCHANGED <<inputVars, otherVars, storeVars, runVars, eaVars>>

\* Faulty variant of P_Fatal: a status event follows fatal_error.
P_Fatal_Extra ==
    /\ pc = "fatal"
    /\ events' = Emit(events, <<Progress("fatal_error", -1, ExcStr(exc), 0),
                                Status("Run failed")>>)
    /\ pc' = "fatal_done"
    /\ UNCHANGED <<inputVars, otherVars, storeVars, runVars, eaVars>>

\* The outer handler: fatal_error ...
P_Fatal ==
    /\ pc = "fatal"
    /\ events' = Emit(events, <<Progress("fatal_error", -1, ExcStr(exc), 0)>>)
    /\ pc' = "fatal_done"
    /\ UNCHANGED <<inputVars, otherVars, storeVars, runVars, eaVars>>

\* Faulty variant of P_FatalDone: the outer handler ends the run without the
\* final event.
P_FatalDone_Silent ==
    /\ pc = "fatal_done"
    /\ pc' = "terminated"
    /\ UNCHANGED <<inputVars, otherVars, storeVars, runVars, eaVars, events>>

\* ... and then the final event, with an empty payload.
P_FatalDone ==
    /\ pc = "fatal_done"
    /\ events' = Emit(events, <<Ev("done", "", -1, "", 0)>>)
    /\ pc' = "terminated"
    /\ UNCHANGED <<inputVars, otherVars, storeVars, runVars, eaVars>>

\* --------------------------------- the action loop over any event stream
\* What a generator in the place of execute_action may yield.
StubEvents == {ActionEvent("message_chunk", "a", 0), ActionEvent("message_saved", "a", 1),
               ActionEvent("error", "stub failed", 0)}

\* The generator in the place of execute_action yields an event or ends; it is
\* not asked again after message_saved (break) or error (raise).
X_Step ==
    /\ driver = "loop"
    /\ pc = "consume"
    /\ ea_out = NoEvent
    /\ ea_pc # "end"
    /\ \/ /\ tool_count < ToolBudget
          /\ \E ev \in StubEvents :
                /\ ev.type = "message_chunk"
                /\ EaYield(ev)
          /\ tool_count' = tool_count + 1
          /\ ea_pc' = "loop"
       \/ /\ \E ev \in StubEvents :
                /\ ev.type # "message_chunk"
                /\ EaYield(ev)
          /\ ea_pc' = "loop"
          /\ UNCHANGED tool_count
       \/ /\ ea_pc' = "end"
          /\ UNCHANGED <<ea_out, ea_events, tool_count>>
    /\ UNCHANGED <<inputVars, otherVars, pc, storeVars, runVars, events, content_accumulator,
                   ts_pc, tool_events>>

\* ------------------------------------- the registry, consumed directly
\* The (agent_name, tool_name) arguments of a call of execute_tool.
ToolCalls == {Action(a, t) : a \in {"Copilot", "Ghost"},
                             t \in {"Answer", "TavilySearch", "Legacy", "Nope"}}
RegIdle == UNCHANGED <<inputVars, concVars, callVars, collabVars, serviceVars, pc, storeVars, runVars, events,
                       ea_pc, ea_out, ea_events, content_accumulator>>

\* execute_tool up to the relay loop: a failed resolution yields one error
\* envelope and returns, a successful one calls the tool's run; a fault on
\* the way is caught by the handler of execute_tool.
T_Resolve ==
    /\ driver = "registry"
    /\ ts_pc = "start"
    /\ \/ LET r == Resolve(CurAction) IN
          IF r # "ok"
          THEN /\ envelopes' = Append(envelopes, Envelope("error", NoToolEvent,
                                                          ResolveError(CurAction, r)))
               /\ ts_pc' = "ended"
               /\ UNCHANGED run_calls
          ELSE /\ run_calls' = run_calls + 1
               /\ ts_pc' = "relay"
               /\ UNCHANGED envelopes
       \/ /\ envelopes' = Append(envelopes, Envelope("error", NoToolEvent,
                 "Unexpected error during tool execution: database is locked"))
          /\ ts_pc' = "ended"
          /\ UNCHANGED run_calls
    /\ UNCHANGED <<tool_events, tool_count, tool_raised>>
    /\ RegIdle

\* The tool yields an event: run wraps it and execute_tool relays the envelope.
T_Event ==
    /\ driver = "registry"
    /\ ts_pc = "relay"
    /\ tool_count < ToolBudget
    /\ \E e \in ToolEvents :
          /\ tool_events' = Append(tool_events, e)
          /\ envelopes' = Append(envelopes, WrapSuccess(e))
    /\ tool_count' = tool_count + 1
    /\ UNCHANGED <<ts_pc, run_calls, tool_raised>>
    /\ RegIdle

\* Faulty variant of T_Fault: the fault of the tool leaves the stream.
T_Fault_Escapes ==
    /\ driver = "registry"
    /\ ts_pc = "relay"
    /\ tool_raised' = TRUE
    /\ ts_pc' = "ended"
    /\ UNCHANGED <<envelopes, tool_events, tool_count, run_calls>>
    /\ RegIdle

\* The tool raises: run catches the fault and yields one error envelope, the
\* last of the stream.
T_Fault ==
    /\ driver = "registry"
    /\ ts_pc = "relay"
    /\ tool_raised' = TRUE
    /\ envelopes' = Append(envelopes, WrapFault("tool raised"))
    /\ ts_pc' = "ended"
    /\ UNCHANGED <<tool_events, tool_count, run_calls>>
    /\ RegIdle

\* The tool's stream ends, and the stream of execute_tool with it.
T_End ==
    /\ driver = "registry"
    /\ ts_pc = "relay"
    /\ ts_pc' = "ended"
    /\ UNCHANGED <<envelopes, tool_events, tool_count, run_calls, tool_raised>>
    /\ RegIdle

\* --------------------------------------- get_or_create_chat, called directly
\* One call of get_or_create_chat(chat_id, owner) and what it did.
ChatCall(cid, own, r, before) ==
    [chat_id |-> cid, owner |-> own, ok |-> r.ok, chat |-> r.chat, err |-> r.err,
     before |-> before, after |-> r.chats]

\* A caller resolves a chat: by an id it was given or one of a stored chat;
\* the Chat table may fail.
G_Call ==
    /\ driver = "calls"
    /\ Len(calls) < MaxCalls
    /\ \E cid \in ChatIdInputs \cup chats, own \in OwnerInputs :
          \/ LET r == GetOrCreateChat(cid, own, chats) IN
             /\ chats' = r.chats
             /\ calls' = Append(calls, ChatCall(cid, own, r, chats))
          \/ /\ calls' = Append(calls, ChatCall(cid, own,
                    [ok |-> FALSE, chat |-> None, chats |-> chats,
                     err |-> "database is locked"], chats))
             /\ UNCHANGED chats
    /\ UNCHANGED <<inputVars, concVars, toolVars, collabVars, serviceVars, pc, messages, memory, runVars,
                   events, eaVars>>

\* ------------------------------------------------------ concurrent runs
\* Two calls of process_message_stream on one ChatManager.  Each step below is
\* the code of one run between two suspension points; the steps of the two
\* runs interleave freely.
Runs == {"A", "B"}

\* An element of a Python list, with the writer that put it there.
Cell(e, w) == [entry |-> e, by |-> w]
HistoryCells(h) == [k \in 1..Len(h) |-> Cell(h[k], "memory")]

\* Faulty variant of NewList: every run gets the same list object.
NewList_Shared(h) == 1

\* "history + [...]" builds a new list object: its reference.
NewList(h) == Len(h) + 1

\* The list at reference ref becomes cells.
Store(h, ref, cells) ==
    IF ref \in DOMAIN h THEN [h EXCEPT ![ref] = cells] ELSE Append(h, cells)

\* The plans of a concurrent run: the same action, up to MaxPlan times.
RunPlans == {[k \in 1..n |-> Action("Copilot", "Answer")] : n \in 0..MaxPlan}
\* What an action of a concurrent run may end with: the content of its saved
\* message, or a failure.
RunOutcomes == {"a", Placeholder, "error"}

NoRun == [pc |-> "seed", ctx |-> 0, plan |-> << >>, i |-> 0, passed |-> << >>]
SetRun(r, rec) == runs' = [runs EXCEPT ![r] = rec]
ConcIdle == UNCHANGED <<inputVars, toolVars, callVars, collabVars, serviceVars, pc, storeVars, runVars, events,
                        eaVars>>

\* Step 4 of run r: current_context = history + [the user message].
R_Seed(r) ==
    /\ runs[r].pc = "seed"
    /\ \E h \in Histories :
          LET ref == NewList(heap) IN
          /\ heap' = Store(heap, ref, Append(HistoryCells(h),
                              Cell([role |-> "user", content |-> message], r)))
          /\ SetRun(r, [runs[r] EXCEPT !.ctx = ref, !.pc = "plan"])
    /\ ConcIdle

\* Step 5 of run r: the plan, or a fault of the planner.
R_Plan(r) ==
    /\ runs[r].pc = "plan"
    /\ \/ \E p \in RunPlans : SetRun(r, [runs[r] EXCEPT !.plan = p, !.i = 0, !.pc = "loop"])
       \/ SetRun(r, [runs[r] EXCEPT !.pc = "done"])
    /\ UNCHANGED heap
    /\ ConcIdle

\* Step 6 of run r, top of the loop: execute_action is called with the
\* run's current_context.
R_Call(r) ==
    /\ runs[r].pc = "loop"
    /\ runs[r].i < Len(runs[r].plan)
    /\ SetRun(r, [runs[r] EXCEPT !.pc = "call"])
    /\ UNCHANGED heap
    /\ ConcIdle

\* The tool of the action reads the conversation_context it was given.
R_Read(r) ==
    /\ runs[r].pc = "call"
    /\ SetRun(r, [runs[r] EXCEPT !.passed = Append(@, heap[runs[r].ctx]),
                                 !.pc = "stream"])
    /\ UNCHANGED heap
    /\ ConcIdle

\* The action of run r ends: its entry is appended to current_context, or the
\* run stops on the failure.
R_Result(r) ==
    /\ runs[r].pc = "stream"
    /\ \E o \in RunOutcomes :
          IF o = "error"
          THEN /\ SetRun(r, [runs[r] EXCEPT !.pc = "done"])
               /\ UNCHANGED heap
          ELSE /\ heap' = Store(heap, runs[r].ctx,
                     Append(heap[runs[r].ctx],
                            Cell(ContextMessage(runs[r].plan[runs[r].i + 1], o), r)))
               /\ SetRun(r, [runs[r] EXCEPT !.i = @ + 1, !.pc = "loop"])
    /\ ConcIdle

\* Steps 7 and 8 of run r: the run ends and its context is dropped.
R_Finish(r) ==
    /\ runs[r].pc = "loop"
    /\ runs[r].i >= Len(runs[r].plan)
    /\ SetRun(r, [runs[r] EXCEPT !.pc = "done"])
    /\ UNCHANGED heap
    /\ ConcIdle

\* -------------------------------------------- the ToolManager's instances
\* The tool names of the calls: classes of tool_classes whose source is at
\* hand, and a name that is none of them.
ToolNames == {"CommandLineTool", "MCPTool", "WebContentFetcher", "CodeWriter", "Analyze",
              "Answer", "Nope"}

\* An optional value: None, or Some(v).
Absent(dflt) == [some |-> FALSE, val |-> dflt]
Some(v) == [some |-> TRUE, val |-> v]

\* The state a tool's constructor sets.
DefaultHeaders == [h \in {"User-Agent"} |-> "Mozilla/5.0"]
NewToolState ==
    [allowed_commands |-> << >>,
     blocked_commands |-> <<"rm -rf", "sudo", "format", "mkfs">>,
     registry_url |-> Absent(""),
     default_auth_token |-> Absent(""),
     headers |-> DefaultHeaders]
NoInstance == [id |-> 0, state |-> NewToolState]

\* AgentTool.config: a dict, by the keys the ToolManager reads.
Config(allowed, blocked, url, token, hdrs, key) ==
    [allowed_commands |-> allowed, blocked_commands |-> blocked, registry_url |-> url,
     default_auth_token |-> token, headers |-> hdrs, api_key |-> key]
NoHeaders == Absent(DefaultHeaders)
EmptyConfig == Config(Absent(<< >>), Absent(<< >>), Absent(""), Absent(""), NoHeaders, Absent(""))
Configs ==
    {EmptyConfig,
     Config(Some(<<"ls">>), Absent(<< >>), Absent(""), Absent(""), NoHeaders, Absent("")),
     Config(Some(<<"ls">>), Some(<<"rm">>), Some("http://r1"), Absent(""),
            Some([h \in {"X-Token"} |-> "t1"]), Some("k1")),
     Config(Absent(<< >>), Some(<< >>), Some("http://r2"), Some("tok"),
            Some([h \in {"User-Agent"} |-> "mine"]), Absent(""))}

\* dict.update
Update(d, new) ==
    [k \in DOMAIN d \cup DOMAIN new |-> IF k \in DOMAIN new THEN new[k] ELSE d[k]]

\* CommandLineTool.configure
ConfigureCommandLine(st, allowed, blocked) ==
    [st EXCEPT !.allowed_commands = IF allowed.some THEN allowed.val ELSE @,
               !.blocked_commands = IF blocked.some THEN blocked.val ELSE @]
\* MCPTool.configure
ConfigureMCP(st, url, token) ==
    [st EXCEPT !.registry_url = Some(url), !.default_auth_token = token]
\* Faulty variant of ConfigureFetcher: the value of a header that is set
\* already is extended.
ConfigureFetcher_Extends(st, hdrs) ==
    IF hdrs.some /\ DOMAIN hdrs.val # {}
    THEN [st EXCEPT !.headers =
             [k \in DOMAIN @ \cup DOMAIN hdrs.val |->
                 IF k \in DOMAIN hdrs.val
                 THEN (IF k \in DOMAIN @ THEN @[k] \o ", " \o hdrs.val[k] ELSE hdrs.val[k])
                 ELSE @[k]]]
    ELSE st

\* WebContentFetcherTool.configure
ConfigureFetcher(st, hdrs) ==
    IF hdrs.some /\ DOMAIN hdrs.val # {}
    THEN [st EXCEPT !.headers = Update(@, hdrs.val)]
    ELSE st

\* Faulty variant of GetToolInstance: the instance is not looked up, a new one
\* is constructed for every call.
GetToolInstance_Fresh(name, insts, ctor_ok, next_id) ==
    IF name \in ToolClasses /\ ctor_ok
    THEN [inst |-> next_id, made |-> TRUE,
          insts |-> [insts EXCEPT ![name] = [id |-> next_id, state |-> NewToolState]]]
    ELSE [inst |-> 0, made |-> FALSE, insts |-> insts]

\* get_tool_instance: the stored instance; else a new instance of the class,
\* stored under the name; None (id 0) for a constructor that raises and for a
\* name that is no class.
GetToolInstance(name, insts, ctor_ok, next_id) ==
    IF insts[name].id # 0
    THEN [inst |-> insts[name].id, made |-> FALSE, insts |-> insts]
    ELSE IF name \in ToolClasses /\ ctor_ok
    THEN [inst |-> next_id, made |-> TRUE,
          insts |-> [insts EXCEPT ![name] = [id |-> next_id, state |-> NewToolState]]]
    ELSE [inst |-> 0, made |-> FALSE, insts |-> insts]

\* The branch of configure_tool for the tool: the state after it and what is
\* returned. CodeWriterTool has no configure method: the call raises, and the
\* handler returns False.
ApplyConfig(name, st, config) ==
    CASE name \in {"Analyze", "TavilySearch"} -> [ok |-> TRUE, state |-> st]
      [] name = "CodeWriter" -> [ok |-> FALSE, state |-> st]
      [] name = "WebContentFetcher" ->
            [ok |-> TRUE, state |-> ConfigureFetcher(st, config.headers)]
      [] name = "MCPTool" ->
            IF config.registry_url.some
            THEN [ok |-> TRUE, state |-> ConfigureMCP(st, config.registry_url.val,
                                                      config.default_auth_token)]
            ELSE [ok |-> FALSE, state |-> st]
      [] name = "CommandLineTool" ->
            [ok |-> TRUE, state |-> ConfigureCommandLine(st, config.allowed_commands,
                                                         config.blocked_commands)]
      [] OTHER -> [ok |-> FALSE, state |-> st]

\* configure_tool
ConfigureTool(name, config, insts, ctor_ok, next_id) ==
    LET g == GetToolInstance(name, insts, ctor_ok, next_id) IN
    IF g.inst = 0
    THEN [ok |-> FALSE, inst |-> 0, made |-> g.made, insts |-> g.insts]
    ELSE LET a == ApplyConfig(name, g.insts[name].state, config) IN
         [ok |-> a.ok, inst |-> g.inst, made |-> g.made,
          insts |-> [g.insts EXCEPT ![name].state = a.state]]

NextId == n_ops + 1
\* A call, and whether it repeats the call before it.
Op(kind, name, config) ==
    [op |-> kind, name |-> name, config |-> config,
     again |-> last_op.op = kind /\ last_op.name = name /\ last_op.config = config]
NoOp == [op |-> "none", name |-> "", config |-> EmptyConfig, again |-> FALSE]

InitToolManager ==
    /\ tool_instances = [n \in ToolNames |-> NoInstance]
    /\ made = [n \in ToolNames |-> 0]
    /\ handed = [n \in ToolNames |-> {}]
    /\ last_op = NoOp
    /\ n_ops = 0

\* What a call leaves behind: the instances, the instance it was handed.
Handed(name, r) ==
    /\ tool_instances' = r.insts
    /\ made' = [made EXCEPT ![name] = IF r.made THEN @ + 1 ELSE @]
    /\ handed' = [handed EXCEPT ![name] = IF r.inst # 0 THEN @ \cup {r.inst} ELSE @]
    /\ n_ops' = n_ops + 1

TMIdle == UNCHANGED <<inputVars, concVars, toolVars, callVars, collabVars, httpVars, clearVars,
                      browserVars, pc,
                      storeVars, runVars, events, eaVars>>

\* A call of get_tool_instance(name); the constructor may raise.
TM_Get ==
    /\ driver = "tools"
    /\ n_ops < MaxToolOps
    /\ \E name \in ToolNames, ctor_ok \in BOOLEAN :
          /\ Handed(name, GetToolInstance(name, tool_instances, ctor_ok, NextId))
          /\ last_op' = Op("get", name, EmptyConfig)
    /\ TMIdle

\* A call of configure_tool(name, config).
TM_Configure ==
    /\ driver = "tools"
    /\ n_ops < MaxToolOps
    /\ \E name \in ToolNames, config \in Configs, ctor_ok \in BOOLEAN :
          /\ Handed(name, ConfigureTool(name, config, tool_instances, ctor_ok, NextId))
          /\ last_op' = Op("configure", name, config)
    /\ TMIdle

\* A call of execute_tool for a link the agent holds, under the link's config:
\* the instance, then the configuration when the config is not empty, then the
\* tool's run.
TM_Execute ==
    /\ driver = "tools"
    /\ n_ops < MaxToolOps
    /\ \E name \in ToolNames, config \in Configs, ctor_ok \in BOOLEAN :
          LET g == GetToolInstance(name, tool_instances, ctor_ok, NextId) IN
          /\ IF g.inst # 0 /\ config # EmptyConfig
             THEN Handed(name, [ConfigureTool(name, config, g.insts, ctor_ok, NextId)
                                EXCEPT !.made = g.made])
             ELSE Handed(name, g)
          /\ last_op' = Op("execute", name, config)
    /\ TMIdle

\* ------------------------------------------------------ the chat endpoint
\* The event types of what process_message_stream yields: a run on an
\* initialized ChatManager, and a run on one whose initialize() raised (its
\* intention_recognizer is None, the run fails at the intention step).
RunStreams == {<<"status", "done">>, <<"status", "fatal_error", "done">>}
UninitializedStream == <<"status", "fatal_error", "done">>
\* error_stream of the endpoint's handler
ErrorStream == <<"fatal_error", "done">>

\* A response: who produced it, its status code, and the events of its body.
Response(by, code, evs) == [by |-> by, status_code |-> code, events |-> evs]
\* The response to a request whose dependency raised: the endpoint function is
\* not called, the framework answers.
DependencyFailed == Response("framework", 500, << >>)

InitTransport ==
    /\ chat_manager = "none"
    /\ http_pc = "idle"
    /\ responses = << >>
    /\ handouts = << >>

HttpIdle == UNCHANGED <<inputVars, concVars, toolVars, callVars, collabVars, tmVars, clearVars,
                        browserVars, pc,
                        storeVars, runVars, events, eaVars>>

\* A POST /chat/ arrives.
H_Request ==
    /\ driver = "transport"
    /\ http_pc = "idle"
    /\ Len(responses) < MaxRequests
    /\ http_pc' = "depends"
    /\ UNCHANGED <<chat_manager, responses, handouts>>
    /\ HttpIdle

\* Depends(get_chat_manager) up to its await, resolved before the endpoint
\* function is called: the singleton if there is one; else the LLM and the
\* ChatManager are constructed (either may raise) and the ChatManager is
\* stored, not yet initialized.
H_Depends ==
    /\ driver = "transport"
    /\ http_pc = "depends"
    /\ IF chat_manager # "none"
       THEN /\ handouts' = Append(handouts, chat_manager)
            /\ http_pc' = "endpoint"
            /\ UNCHANGED <<chat_manager, responses>>
       ELSE \/ /\ responses' = Append(responses, DependencyFailed)
               /\ http_pc' = "idle"
               /\ UNCHANGED <<chat_manager, handouts>>
            \/ /\ chat_manager' = "constructed"
               /\ http_pc' = "initializing"
               /\ UNCHANGED <<responses, handouts>>
    /\ HttpIdle

\* "await _chat_manager.initialize()" ends: it raises, or the ChatManager is
\* ready and returned.
H_Initialize ==
    /\ driver = "transport"
    /\ http_pc = "initializing"
    /\ \/ /\ responses' = Append(responses, DependencyFailed)
          /\ http_pc' = "idle"
          /\ UNCHANGED <<chat_manager, handouts>>
       \/ /\ chat_manager' = "ready"
          /\ handouts' = Append(handouts, "ready")
          /\ http_pc' = "endpoint"
          /\ UNCHANGED responses
    /\ HttpIdle

\* Another request is served while the first awaits initialize(): its
\* get_chat_manager finds the singleton stored and returns it at once; its
\* run starts on it and ends as the initialization that is under way allows.
H_Overlap ==
    /\ driver = "transport"
    /\ http_pc = "initializing"
    /\ Len(responses) + 1 < MaxRequests
    /\ handouts' = Append(handouts, chat_manager)
    /\ \E evs \in RunStreams :
          responses' = Append(responses, Response("endpoint", 200, evs))
    /\ UNCHANGED <<chat_manager, http_pc>>
    /\ HttpIdle

\* process_message_stream_endpoint: the generator is made and handed to a
\* StreamingResponse; a fault inside the try block is answered with
\* error_stream and status 500.
H_Endpoint ==
    /\ driver = "transport"
    /\ http_pc = "endpoint"
    /\ \E start_raises \in BOOLEAN :
          IF start_raises
          THEN responses' = Append(responses, Response("endpoint", 500, ErrorStream))
          ELSE \E evs \in (IF chat_manager = "ready" THEN RunStreams
                           ELSE {UninitializedStream}) :
                  responses' = Append(responses, Response("endpoint", 200, evs))
    /\ http_pc' = "idle"
    /\ UNCHANGED <<chat_manager, handouts>>
    /\ HttpIdle

\* ---------------------------------------------------------- BrowserUseTool
\* The calls of _run on the one instance; call r is given task r. An agent
\* handle is named by the task it was constructed for, 0 is None.
Invocations == 1..MaxInvocations
NoHandle == 0
\* A call of _run: its position, its local agent_instance, the handle it ran,
\* the handle that was stored when it reset self.agent, the types of the events
\* it has yielded.
Invocation(p, a, ran, reset, out) ==
    [pc |-> p, agent_instance |-> a, ran |-> ran, reset |-> reset, out |-> out]

InitBrowser ==
    /\ browser_agent = NoHandle
    /\ invocations = [r \in Invocations |-> Invocation("start", NoHandle, NoHandle, NoHandle, << >>)]

BrowserIdle == UNCHANGED <<inputVars, concVars, toolVars, callVars, collabVars, tmVars, httpVars,
                           clearVars, pc, storeVars, runVars, events, eaVars>>

\* The call goes on to position p, yielding the events evs.
Goes(r, p, evs) == [invocations[r] EXCEPT !.pc = p, !.out = @ \o evs]

\* _run up to its first yield: the status event "Preparing browser task".
B_Prepare ==
    /\ driver = "browser"
    /\ \E r \in Invocations :
          /\ invocations[r].pc = "start"
          /\ invocations' = [invocations EXCEPT ![r] = Goes(r, "initialize", <<"status">>)]
    /\ UNCHANGED browser_agent
    /\ BrowserIdle

\* _initialize_agent(model, task): the stored handle if there is one, else an
\* Agent constructed for the task and stored; None when the construction fails.
InitializeAgent(stored, task, ok) ==
    IF stored # NoHandle THEN [stored |-> stored, returned |-> stored]
    ELSE IF ok THEN [stored |-> task, returned |-> task]
    ELSE [stored |-> NoHandle, returned |-> NoHandle]

\* agent_instance = await self._initialize_agent(model, full_task), then the
\* error event and return, or the status event "Starting browser execution".
B_Initialize ==
    /\ driver = "browser"
    /\ \E r \in Invocations, ok \in BOOLEAN :
          LET a == InitializeAgent(browser_agent, r, ok) IN
          /\ invocations[r].pc = "initialize"
          /\ browser_agent' = a.stored
          /\ invocations' = [invocations EXCEPT ![r] =
                IF a.returned = NoHandle
                THEN Goes(r, "done", <<"error">>)
                ELSE [Goes(r, "run", <<"status">>) EXCEPT !.agent_instance = a.returned]]
    /\ BrowserIdle

\* "await agent_instance.run()" starts.
B_Run ==
    /\ driver = "browser"
    /\ \E r \in Invocations :
          /\ invocations[r].pc = "run"
          /\ invocations' = [invocations EXCEPT ![r] =
                [Goes(r, "running", << >>) EXCEPT !.ran = invocations[r].agent_instance]]
    /\ UNCHANGED browser_agent
    /\ BrowserIdle

\* The browser agent's run ends: the status event and the content chunk, or
\* the error event when it raised; then the status event of the finally block.
B_Ran ==
    /\ driver = "browser"
    /\ \E r \in Invocations, raised \in BOOLEAN :
          /\ invocations[r].pc = "running"
          /\ invocations' = [invocations EXCEPT ![r] =
                Goes(r, "cleanup", IF raised THEN <<"error", "status">>
                                   ELSE <<"status", "content_chunk", "status">>)]
    /\ UNCHANGED browser_agent
    /\ BrowserIdle

\* The finally block after its yield: self.agent = None.
B_Reset ==
    /\ driver = "browser"
    /\ \E r \in Invocations :
          /\ invocations[r].pc = "cleanup"
          /\ invocations' = [invocations EXCEPT ![r] =
                [Goes(r, "done", << >>) EXCEPT !.reset = browser_agent]]
    /\ browser_agent' = NoHandle
    /\ BrowserIdle

\* ------------------------------------------------------ clear_runtime_data
\* The tables of the database: the runtime tables Chat, Message and Task, and
\* the configuration tables.
Tables(c, ms, ts, cfg) == [chat |-> c, message |-> ms, task |-> ts, config |-> cfg]
\* A Task row: its chat, and its parent task if it has one.
TaskRow(id, c, p) == [id |-> id, chat |-> c, parent |-> p]

\* The foreign keys hold: Message.chat and Task.chat name a Chat row,
\* Task.parent a Task row.
ForeignKeys(t) ==
    /\ \A k \in 1..Len(t.message) : t.message[k].chat \in t.chat
    /\ \A r \in t.task :
          /\ r.chat \in t.chat
          /\ r.parent = None \/ \E p \in t.task : p.id = r.parent

\* Faulty variant of ClearOrder: the chats are deleted first.
ClearOrder_ChatsFirst == <<"chat", "message", "task">>

\* The tables clear_runtime_data empties, in the order of its statements.
ClearOrder == <<"message", "task", "chat">>

\* The table name without its rows.
Emptied(name, t) ==
    CASE name = "message" -> [t EXCEPT !.message = << >>]
      [] name = "task" -> [t EXCEPT !.task = {}]
      [] name = "chat" -> [t EXCEPT !.chat = {}]

\* Faulty variant of DeleteAll: a table without rows is an error.
DeleteAll_NonEmpty(name, t) ==
    [ok |-> ForeignKeys(Emptied(name, t)) /\ Emptied(name, t) # t,
     tables |-> Emptied(name, t)]

\* Model.delete().execute(): every row of the table goes; the statement fails
\* when a foreign key would be left dangling.
DeleteAll(name, t) ==
    [ok |-> ForeignKeys(Emptied(name, t)), tables |-> Emptied(name, t)]

RECURSIVE DeleteInOrder(_, _, _, _)
\* The statements inside db.atomic(), up to the first that fails; fault names
\* the statement at which the database fails, if any.
DeleteInOrder(order, t, fault, done) ==
    IF order = << >> THEN [ok |-> TRUE, tables |-> t, deleted |-> done]
    ELSE LET d == DeleteAll(Head(order), t) IN
         IF fault = Head(order) \/ ~d.ok
         THEN [ok |-> FALSE, tables |-> t, deleted |-> done]
         ELSE DeleteInOrder(Tail(order), d.tables, fault, Append(done, Head(order)))

\* Where the database may fail during a call.
ClearFaults == {"none", "connect", "message", "task", "chat", "commit"}

\* clear_runtime_data on the tables t: it returns with what the transaction
\* committed, or raises with the tables as they were (the transaction is
\* rolled back).
ClearRuntimeData(t, fault) ==
    IF fault = "connect"
    THEN [outcome |-> "raised", fault |-> fault, before |-> t, after |-> t,
          deleted |-> << >>]
    ELSE LET r == DeleteInOrder(ClearOrder, t, fault, << >>) IN
         IF r.ok /\ fault # "commit"
         THEN [outcome |-> "returned", fault |-> fault, before |-> t, after |-> r.tables,
               deleted |-> r.deleted]
         ELSE [outcome |-> "raised", fault |-> fault, before |-> t, after |-> t,
               deleted |-> r.deleted]

CurrentTables == Tables(chats, messages, tasks, config_tables)

InitMaintenance ==
    /\ config_tables = [agents |-> DbAgents, tools |-> {l[2] : l \in DbLinks},
                        agent_tools |-> DbLinks]
    /\ clears = << >>

\* A call of clear_runtime_data(); the database may fail at any statement.
C_Clear ==
    /\ driver = "maintenance"
    /\ Len(clears) < MaxClears
    /\ \E fault \in ClearFaults :
          LET r == ClearRuntimeData(CurrentTables, fault) IN
          /\ chats' = r.after.chat
          /\ messages' = r.after.message
          /\ tasks' = r.after.task
          /\ config_tables' = r.after.config
          /\ clears' = Append(clears, r)
    /\ UNCHANGED <<inputVars, concVars, toolVars, callVars, collabVars, tmVars, httpVars,
                   browserVars, pc,
                   memory, runVars, events, eaVars>>

\* ------------------------------------------------------- specifications
InitStores ==
    /\ chats = StoredChats
    /\ messages = << >>
    /\ tasks = {}
    /\ memory = << >>

InitIdle ==
    /\ history = << >>
    /\ events = << >>
    /\ all_assistant_messages = << >>
    /\ assistant_message_data = NoEvent
    /\ exc = NoExc
    /\ ea_out = NoEvent
    /\ ea_events = << >>
    /\ content_accumulator = << >>
    /\ ts_pc = "start"
    /\ tool_events = << >>
    /\ tool_count = 0

\* The catalog initialize() loaded; no concurrent runs, no consumer of
\* execute_tool, no calls logged.
InitOther ==
    /\ agents = AgentCatalog
    /\ heap = << >>
    /\ runs = [r \in Runs |-> NoRun]
    /\ envelopes = << >>
    /\ run_calls = 0
    /\ tool_raised = FALSE
    /\ calls = << >>
    /\ titles = [c \in StoredChats |-> "Stored chat"]
    /\ faulted = {}
    /\ InitToolManager
    /\ InitTransport
    /\ InitBrowser
    /\ InitMaintenance

\* A call of process_message_stream(message, chat_id, owner).
Init ==
    /\ driver = "pipeline"
    /\ chat_id \in ChatIdInputs
    /\ owner \in OwnerInputs
    /\ pc = "init"
    /\ InitStores
    /\ InitIdle
    /\ chat = None
    /\ context = << >>
    /\ plan = << >>
    /\ i = 0
    /\ ea_pc = "idle"
    /\ InitOther

Next ==
    \/ P_ResolveChat
    \/ P_History
    \/ P_SaveUser
    \/ P_Intent
    \/ P_Plan
    \/ P_ActionStart
    \/ EA_Start
    \/ EA_Pull
    \/ EA_Save
    \/ P_OnEvent
    \/ P_Finish
    \/ P_Fatal
    \/ P_FatalDone

Spec == Init /\ [][Next]_vars

\* The event loop runs a task that can take a step.
LiveSpec == Spec /\ WF_vars(Next)

\* A call of process_message_stream whose collaborators (the title LLM, the
\* memory) may fail inside.
InitDegraded ==
    /\ driver = "degraded"
    /\ chat_id \in ChatIdInputs
    /\ owner \in OwnerInputs
    /\ pc = "init"
    /\ InitStores
    /\ InitIdle
    /\ chat = None
    /\ context = << >>
    /\ plan = << >>
    /\ i = 0
    /\ ea_pc = "idle"
    /\ InitOther

SpecDegraded == InitDegraded /\ [][Next]_vars

\* A call of execute_action(message, action, chat, context) on a stored chat,
\* consumed to its end.
InitEA ==
    /\ driver = "direct"
    /\ chat_id = "c1"
    /\ owner = "alice"
    /\ pc = "direct"
    /\ InitStores
    /\ InitIdle
    /\ chat = "c1"
    /\ context \in {h \o <<[role |-> "user", content |-> message]>> : h \in Histories}
    /\ plan \in {<<a>> : a \in DirectActions}
    /\ i = 0
    /\ ea_pc = "start"
    /\ InitOther

NextEA ==
    \/ EA_Start
    \/ EA_Pull
    \/ EA_Save
    \/ EA_Finish
    \/ D_Consume

SpecEA == InitEA /\ [][NextEA]_vars

\* Two calls of process_message_stream on one ChatManager, interleaved.
InitConcurrent ==
    /\ driver = "concurrent"
    /\ chat_id = "c1"
    /\ owner = "alice"
    /\ pc = "concurrent"
    /\ InitStores
    /\ InitIdle
    /\ chat = "c1"
    /\ context = << >>
    /\ plan = << >>
    /\ i = 0
    /\ ea_pc = "idle"
    /\ InitOther

NextConcurrent ==
    \E r \in Runs :
        \/ R_Seed(r)
        \/ R_Plan(r)
        \/ R_Call(r)
        \/ R_Read(r)
        \/ R_Result(r)
        \/ R_Finish(r)

SpecConcurrent == InitConcurrent /\ [][NextConcurrent]_vars

\* A call of execute_tool(agent_name, tool_name), consumed to its end.
InitRegistry ==
    /\ driver = "registry"
    /\ chat_id = "c1"
    /\ owner = "alice"
    /\ pc = "registry"
    /\ InitStores
    /\ InitIdle
    /\ chat = "c1"
    /\ context = << >>
    /\ plan \in {<<a>> : a \in ToolCalls}
    /\ i = 0
    /\ ea_pc = "idle"
    /\ InitOther

NextRegistry ==
    \/ T_Resolve
    \/ T_Event
    \/ T_Fault
    \/ T_End

SpecRegistry == InitRegistry /\ [][NextRegistry]_vars

\* The action loop of process_message_stream, from the plan on, over a
\* generator that may yield any events and may end without a terminal one.
InitLoop ==
    /\ driver = "loop"
    /\ chat_id = "c1"
    /\ owner = "alice"
    /\ pc = "loop"
    /\ InitStores
    /\ InitIdle
    /\ chat = "c1"
    /\ context = <<[role |-> "user", content |-> message]>>
    /\ plan \in PlansUpTo(MaxPlan)
    /\ i = 0
    /\ ea_pc = "idle"
    /\ InitOther

NextLoop ==
    \/ P_ActionStart
    \/ X_Step
    \/ P_OnEvent
    \/ P_Finish
    \/ P_Fatal
    \/ P_FatalDone

SpecLoop == InitLoop /\ [][NextLoop]_vars

\* Calls on one ToolManager, one after the other.
InitTools ==
    /\ driver = "tools"
    /\ chat_id = None
    /\ owner = None
    /\ pc = "tools"
    /\ InitStores
    /\ InitIdle
    /\ chat = None
    /\ context = << >>
    /\ plan = << >>
    /\ i = 0
    /\ ea_pc = "idle"
    /\ InitOther

NextTools ==
    \/ TM_Get
    \/ TM_Configure
    \/ TM_Execute

SpecTools == InitTools /\ [][NextTools]_vars

\* Requests to the chat endpoint of one server process, one after the other.
InitServer ==
    /\ driver = "transport"
    /\ chat_id = None
    /\ owner = None
    /\ pc = "transport"
    /\ InitStores
    /\ InitIdle
    /\ chat = None
    /\ context = << >>
    /\ plan = << >>
    /\ i = 0
    /\ ea_pc = "idle"
    /\ InitOther

NextTransport ==
    \/ H_Request
    \/ H_Depends
    \/ H_Initialize
    \/ H_Overlap
    \/ H_Endpoint

SpecTransport == InitServer /\ [][NextTransport]_vars

\* Calls of _run on the BrowserUseTool instance the ToolManager shares,
\* interleaved at their awaits and yields.
InitBrowsing ==
    /\ driver = "browser"
    /\ chat_id = None
    /\ owner = None
    /\ pc = "browser"
    /\ InitStores
    /\ InitIdle
    /\ chat = None
    /\ context = << >>
    /\ plan = << >>
    /\ i = 0
    /\ ea_pc = "idle"
    /\ InitOther

NextBrowser ==
    \/ B_Prepare
    \/ B_Initialize
    \/ B_Run
    \/ B_Ran
    \/ B_Reset

SpecBrowser == InitBrowsing /\ [][NextBrowser]_vars

\* Calls of clear_runtime_data, one after the other, on a database whose
\* foreign keys hold.
ChatRows == {"c1", "c2"}
MessageRow(k, c) == [NewMessage(<< >>, c, "user", message, "") EXCEPT !.id = k]
MessageTables(cs) == UNION {{[k \in 1..n |-> MessageRow(k, f[k])] : f \in [1..n -> cs]} : n \in 0..2}
TaskRows(cs) == {TaskRow("t1", c, None) : c \in cs} \cup {TaskRow("t2", c, "t1") : c \in cs}
InitMaintained ==
    /\ driver = "maintenance"
    /\ chat_id = None
    /\ owner = None
    /\ pc = "maintenance"
    /\ chats \in SUBSET ChatRows
    /\ messages \in MessageTables(chats)
    /\ memory = << >>
    /\ InitIdle
    /\ chat = None
    /\ context = << >>
    /\ plan = << >>
    /\ i = 0
    /\ ea_pc = "idle"
    /\ InitOther
    /\ tasks \in {ts \in SUBSET TaskRows(chats) :
                    /\ ForeignKeys(Tables(chats, messages, ts, config_tables))
                    /\ \A a, b \in ts : a.id = b.id => a = b}

NextMaintenance == C_Clear

SpecMaintenance == InitMaintained /\ [][NextMaintenance]_vars

\* Calls of get_or_create_chat, one after the other, on one Chat table.
InitCalls ==
    /\ driver = "calls"
    /\ chat_id = None
    /\ owner = None
    /\ pc = "calls"
    /\ InitStores
    /\ InitIdle
    /\ chat = None
    /\ context = << >>
    /\ plan = << >>
    /\ i = 0
    /\ ea_pc = "idle"
    /\ InitOther

NextCalls == G_Call

SpecCalls == InitCalls /\ [][NextCalls]_vars

\* =============================================================== claims
\* Positions of the Progress Events of step s, and of the final events.
Positions(s) == {k \in 1..Len(events) : events[k].type = "progress" /\ events[k].step = s}
DonePositions == {k \in 1..Len(events) : events[k].type = "done"}
Terminated == pc = "terminated"

\* C1: the event sequence of a run that has ended holds exactly one done
\* event, as its last event; a run that has not ended has emitted none.
C1_ExactlyOneDoneLast ==
    /\ Terminated => DonePositions = {Len(events)} /\ Len(events) >= 1
    /\ ~Terminated => DonePositions = {}

\* A run in which one action succeeded and a later one failed has ended.
C1_Witness ==
    /\ Terminated
    /\ Positions("action_result") # {}
    /\ Positions("fatal_error") # {}

\* C2: a run that has started eventually emits done and stops there.
C2_EventuallyDone ==
    <>(Terminated /\ events # << >> /\ events[Len(events)].type = "done")

\* A run that forwarded a chunk of a tool and met an action error has ended.
C2_Witness ==
    /\ Terminated
    /\ Positions("message_chunk") # {}
    /\ Positions("action_error") # {}

\* The events after action_started at position k, up to the next action_started.
NextStart(k) ==
    LET later == {j \in Positions("action_started") : j > k} IN
    IF later = {} THEN Len(events) + 1
    ELSE CHOOSE j \in later : \A j2 \in later : j <= j2
Outcomes(k) ==
    {j \in (k + 1)..(NextStart(k) - 1) :
        /\ events[j].type = "progress"
        /\ events[j].step \in {"action_result", "action_error"}}

\* C3: between action_started of index n and the next action_started (or the
\* end of the run) exactly one action_result or action_error is emitted, with
\* index n; before that point there is at most one.
C3_OneOutcomePerAction ==
    \A k \in Positions("action_started") :
        /\ Cardinality(Outcomes(k)) <= 1
        /\ \A j \in Outcomes(k) : events[j].index = events[k].index
        /\ (NextStart(k) <= Len(events) \/ Terminated) => Cardinality(Outcomes(k)) = 1

\* A run of two started actions, the first with a result, the second with an
\* error, has ended.
C3_Witness ==
    /\ Terminated
    /\ Cardinality(Positions("action_started")) = 2
    /\ Positions("action_result") # {}
    /\ Positions("action_error") # {}

\* The pipeline has taken an error event from the Action Executor.
ExecutorError ==
    /\ driver = "pipeline"
    /\ ea_events # << >>
    /\ ea_events[Len(ea_events)].type = "error"
    /\ ea_out = NoEvent

\* C4: once the Action Executor has emitted error for action i, action_error
\* of index i is in the stream, no action of a greater index has started or
\* will start, and the run ends with fatal_error followed by done.
C4_FailFast ==
    ExecutorError =>
        /\ \E k \in Positions("action_error") : events[k].index = i
        /\ \A k \in Positions("action_started") : events[k].index <= i
        /\ pc \in {"fatal", "fatal_done", "terminated"}
        /\ Terminated =>
              /\ Len(events) >= 2
              /\ events[Len(events) - 1].type = "progress"
              /\ events[Len(events) - 1].step = "fatal_error"
              /\ events[Len(events)].type = "done"

\* A run whose plan has two actions has ended after the first one failed.
C4_Witness ==
    /\ ExecutorError
    /\ Terminated
    /\ Len(plan) = 2
    /\ i = 0

\* C5: a run emits at most one fatal_error, and the event after it is done
\* (the handler is about to emit it while fatal_error is still the last event).
C5_FatalThenDone ==
    /\ Cardinality(Positions("fatal_error")) <= 1
    /\ \A k \in Positions("fatal_error") :
          IF k < Len(events) THEN k + 1 = Len(events) /\ events[k + 1].type = "done"
          ELSE pc = "fatal_done"

\* A run that failed in the planner, after the user message was saved, has ended.
C5_Witness ==
    /\ Terminated
    /\ Positions("fatal_error") # {}
    /\ Positions("user_message_saved") # {}
    /\ Positions("plan_generated") = {}

\* ---- the Action Executor, one call of execute_action
IsChunkEvent(e) == e.type = "message_chunk"
IsContentChunk(e) == e.type = "content_chunk"
HasText(e) == e.content # ""
\* The message_chunk events of the call, and the content-chunk Tool Events of
\* the tool, each in order of arrival, and their texts.
ForwardedChunks == SelectSeq(ea_events, IsChunkEvent)
ContentChunks == SelectSeq(tool_events, IsContentChunk)
TextsOf(seq) == [k \in 1..Len(seq) |-> seq[k].content]
EaTerminals == {k \in 1..Len(ea_events) : ea_events[k].type \in {"message_saved", "error"}}
\* The call has ended in message_saved.
Saved == ea_events # << >> /\ ea_events[Len(ea_events)].type = "message_saved"
SavedEvent == ea_events[Len(ea_events)]

\* C6: a call of execute_action emits at most one terminal event
\* (message_saved or error), every message_chunk comes before it, and a call
\* consumed to its end has emitted exactly one.
C6_OneTerminalEvent ==
    /\ Cardinality(EaTerminals) <= 1
    /\ \A t \in EaTerminals : \A k \in 1..Len(ea_events) :
          IsChunkEvent(ea_events[k]) => k < t
    /\ ea_pc = "end" => Cardinality(EaTerminals) = 1

\* A call that forwarded a chunk and then emitted error was consumed to its end.
C6_Witness ==
    /\ driver = "direct"
    /\ ea_pc = "end"
    /\ Len(ForwardedChunks) >= 1
    /\ ea_events[Len(ea_events)].type = "error"

\* C7 as stated: for a call that ended in message_saved, as many message_chunk
\* events were forwarded as the tool produced content-chunk Tool Events.
C7_AsStated ==
    Saved => Len(ForwardedChunks) = Len(ContentChunks)

\* C7: for a call that ended in message_saved, as many message_chunk events
\* were forwarded as the tool produced content-chunk Tool Events with
\* non-empty content.
C7_ChunkCount ==
    Saved => Len(ForwardedChunks) = Len(SelectSeq(ContentChunks, HasText))

\* A saved call whose tool produced an empty and a non-empty content chunk.
C7_Witness ==
    /\ Saved
    /\ \E k \in 1..Len(ContentChunks) : ContentChunks[k].content = ""
    /\ \E k \in 1..Len(ContentChunks) : ContentChunks[k].content # ""

\* The tool produced content chunks only, followed by one final event.
ChunksThenFinal ==
    /\ tool_events # << >>
    /\ tool_events[Len(tool_events)].type = "final_info"
    /\ \A k \in 1..(Len(tool_events) - 1) : IsContentChunk(tool_events[k])

\* C8 as stated: after content chunks c1..cn and a final event, the
\* message_chunk events carry c1..cn in order and message_saved carries c1+...+cn.
C8_AsStated ==
    (Saved /\ ChunksThenFinal) =>
        /\ TextsOf(ForwardedChunks) = TextsOf(ContentChunks)
        /\ SavedEvent.content = JoinStr(TextsOf(ContentChunks))

\* C8: after content chunks c1..cn and a final event, the message_chunk events
\* carry the non-empty ones among c1..cn in order, followed by one
\* message_saved that carries c1+...+cn, or the placeholder when that is empty.
C8_ChunksThenSaved ==
    (Saved /\ ChunksThenFinal) =>
        /\ TextsOf(ForwardedChunks) = TextsOf(SelectSeq(ContentChunks, HasText))
        /\ ea_events = ForwardedChunks \o <<SavedEvent>>
        /\ SavedEvent.content =
              IF JoinStr(TextsOf(ContentChunks)) = "" THEN Placeholder
              ELSE JoinStr(TextsOf(ContentChunks))

\* The tool produced "a", "b" and a final event, and the call was saved.
C8_Witness ==
    /\ Saved
    /\ tool_events = <<ToolEvent("content_chunk", "a"), ToolEvent("content_chunk", "b"),
                       ToolEvent("final_info", "")>>

\* The text a consumer accumulates from the message_chunk events, and the
\* content of the Message row the call created.
AccumulatedText == JoinStr(TextsOf(ForwardedChunks))
PersistedMessage == messages[SavedEvent.msg]

\* C9 as stated: the content of the persisted message is the text accumulated
\* from the chunk events.
C9_AsStated ==
    Saved => PersistedMessage.content = AccumulatedText

\* C9: the content of the persisted message is the text accumulated from the
\* chunk events when that text is not empty, and the placeholder otherwise.
C9_RoundTrip ==
    Saved =>
        /\ SavedEvent.msg \in 1..Len(messages)
        /\ PersistedMessage.role = "assistant"
        /\ PersistedMessage.content =
              IF AccumulatedText = "" THEN Placeholder ELSE AccumulatedText

\* A saved call that forwarded two chunks and persisted their concatenation.
C9_Witness ==
    /\ Saved
    /\ Len(ForwardedChunks) = 2
    /\ PersistedMessage.content = "ab"

\* ---- the order of the steps of a run
NonActionSteps == <<"chat_created", "history_retrieved", "user_message_saved",
                    "intention_recognized", "plan_generated">>
StepOrder == NonActionSteps \o <<"action_started">>

\* C10: chat_created, history_retrieved, user_message_saved,
\* intention_recognized and plan_generated are each emitted at most once, in
\* that order and each only after its predecessor (chat_created is optional),
\* all before every action_started; the action_started events are numbered
\* 0, 1, 2, ... and name the actions of the plan in order; fatal_error and
\* done come after all of them.
C10_StepOrder ==
    LET at == [n \in 1..Len(StepOrder) |-> Positions(StepOrder[n])]
        starts == at[Len(StepOrder)]
        ends == Positions("fatal_error") \cup DonePositions
    IN  /\ \A n \in 1..Len(NonActionSteps) : Cardinality(at[n]) <= 1
        /\ \A a, b \in 1..Len(StepOrder) :
              a < b => \A ka \in at[a] : \A kb \in at[b] : ka < kb
        /\ \A n \in 3..Len(StepOrder) : at[n] # {} => at[n - 1] # {}
        /\ \A k \in starts :
              /\ events[k].index = Cardinality({j \in starts : j < k})
              /\ events[k].index < Len(plan)
              /\ events[k].content = plan[events[k].index + 1].agent_name
        /\ \A k \in ends : \A n \in 1..Len(StepOrder) : \A j \in at[n] : j < k

\* A run that created its chat and started two actions has ended in fatal_error.
C10_Witness ==
    /\ Terminated
    /\ Positions("chat_created") # {}
    /\ Cardinality(Positions("action_started")) = 2
    /\ Positions("fatal_error") # {}

\* ---- the Conversation Context of a run
\* The context exists from step 4 on.
ContextSeeded == Positions("intention_recognized") # {}
\* The action_result events so far, in order of emission.
ResultPositions == SelectSeq([k \in 1..Len(events) |-> k],
                             LAMBDA k : k \in Positions("action_result"))
\* The entry the pipeline synthesizes for the action_result at position k.
ResultEntry(k) == ContextMessage(plan[events[k].index + 1], events[k].content)
IsPrefix(s, t) == Len(s) <= Len(t) /\ SubSeq(t, 1, Len(s)) = s

\* The context is the retrieved history, the user message, and one entry per
\* action_result in order; an action that is running was passed the entries
\* of the successful actions before it.
C11_Shape ==
    ContextSeeded =>
        /\ context = history \o <<[role |-> "user", content |-> message]>>
                      \o [n \in 1..Len(ResultPositions) |-> ResultEntry(ResultPositions[n])]
        /\ pc = "consume" =>
              /\ \A k \in Positions("action_result") : events[k].index < i
              /\ \A j \in 0..(i - 1) :
                    (\E k \in Positions("action_result") : events[k].index = j)
                    => \E n \in 1..Len(context) :
                          /\ context[n].role = "assistant"
                          /\ \E k \in Positions("action_result") :
                                events[k].index = j /\ context[n] = ResultEntry(k)

\* A step of a seeded context keeps its entries in place and adds at most one,
\* and it adds one exactly when it emits action_result.
C11_Step ==
    ContextSeeded =>
        /\ IsPrefix(context, context')
        /\ Len(context') <= Len(context) + 1
        /\ Len(context') = Len(context) + 1
           <=> \E k \in (Len(events) + 1)..Len(events') :
                  events'[k].type = "progress" /\ events'[k].step = "action_result"

\* C11: the Conversation Context only grows: it is seeded with the history
\* followed by the user message, gets exactly one assistant entry per action
\* that ended in action_result and none for a failed action, never loses or
\* reorders an entry, and the context passed to action i holds the entries of
\* the successful actions before i.
C11_ContextGrows == [](C11_Shape) /\ [][C11_Step]_vars

\* The second action of a run with a non-empty history is running after the
\* first one succeeded.
C11_Witness ==
    /\ pc = "consume"
    /\ i = 1
    /\ history # << >>
    /\ Len(context) = Len(history) + 2

\* ---- two interleaved runs
Other(r) == CHOOSE q \in Runs : q # r
CellsOf(r) == IF runs[r].ctx = 0 THEN << >> ELSE heap[runs[r].ctx]
Own(cells, r) == \A k \in 1..Len(cells) : cells[k].by \in {r, "memory"}

\* C12: with two runs interleaved, the context of a run is a list of its own:
\* the other run never appends to it, and no context read by an action of a
\* run holds an entry appended by the other run.
C12_ContextIsolated ==
    \A r \in Runs :
        /\ runs[r].ctx # 0 => runs[r].ctx # runs[Other(r)].ctx
        /\ Own(CellsOf(r), r)
        /\ \A n \in 1..Len(runs[r].passed) : Own(runs[r].passed[n], r)

\* Run B's second action has read its context after run A appended the entry
\* of an action to its own.
C12_Witness ==
    /\ Len(runs["B"].passed) = 2
    /\ runs["B"].pc = "stream"
    /\ \E k \in 1..Len(CellsOf("A")) :
          CellsOf("A")[k].by = "A" /\ CellsOf("A")[k].entry.role = "assistant"

\* ---- the payload of the final event
LastEvent == events[Len(events)]
EmptyDone == Ev("done", "", -1, "", 0)
\* The final event that carries the message of the last action_result.
LastResultDone ==
    LET k == CHOOSE j \in Positions("action_result") :
                 \A j2 \in Positions("action_result") : j2 <= j
    IN  Ev("done", "", -1, events[k].content, events[k].msg)

\* C13 as stated: done carries the last assistant message whenever an action
\* of the run succeeded, and an empty payload otherwise.
C13_AsStated ==
    Terminated =>
        LastEvent = IF Positions("action_result") # {} THEN LastResultDone ELSE EmptyDone

\* C13: done carries the last assistant message when an action of the run
\* succeeded and the run did not end in fatal_error; it carries an empty
\* payload when no action succeeded and whenever the run ended in fatal_error.
C13_DonePayload ==
    Terminated =>
        LastEvent = IF Positions("action_result") # {} /\ Positions("fatal_error") = {}
                    THEN LastResultDone ELSE EmptyDone

\* A run has ended in which the first action succeeded and the second failed.
C13_Witness ==
    /\ Terminated
    /\ \E k \in Positions("action_result") : events[k].index = 0
    /\ \E k \in Positions("action_error") : events[k].index = 1
    /\ LastEvent = EmptyDone

\* ---- a new chat and an empty plan
\* A run without a chat id, with an owner, whose planner returned no action.
EmptyPlanRun ==
    /\ driver = "pipeline"
    /\ chat_id = None
    /\ owner # None
    /\ \E k \in Positions("plan_generated") : events[k].index = 0
ActionSteps == {"action_started", "message_chunk", "action_result", "action_error"}

\* The state of such a run, from plan_generated on.
C14_State ==
    EmptyPlanRun =>
        /\ chat \in chats \ StoredChats
        /\ Cardinality(Positions("chat_created")) = 1
        /\ \A k \in Positions("chat_created") : events[k].content = chat
        /\ Cardinality(Positions("user_message_saved")) = 1
        /\ \A s \in ActionSteps \cup {"fatal_error"} : Positions(s) = {}
        /\ \/ pc = "loop" /\ DonePositions = {}
           \/ Terminated /\ LastEvent = EmptyDone

\* C14: in a run without a chat id, with an owner and an empty plan, a chat
\* has been created, chat_created and user_message_saved have been emitted, no
\* action_started, message_chunk, action_result, action_error or fatal_error
\* is emitted, and the run ends with a done of empty payload.
C14_EmptyPlan ==
    /\ [](C14_State)
    /\ EmptyPlanRun ~> (Terminated /\ LastEvent = EmptyDone)

\* Such a run has ended.
C14_Witness ==
    /\ EmptyPlanRun
    /\ Terminated

\* ---- an agent that is not in the catalog
\* The action at index i names an agent missing from the catalog, and
\* execute_action has made its lookup.
UnknownAgentCase ==
    /\ driver = "pipeline"
    /\ pc \in {"consume", "fatal", "fatal_done", "terminated"}
    /\ i < Len(plan)
    /\ CurAction.agent_name \notin AgentCatalog
    /\ ea_pc # "start"

\* C15: for an action whose agent is not in the catalog, execute_action emits
\* one error event that names the agent and nothing else, the registry is not
\* invoked and no message is persisted; the pipeline emits action_error at
\* the index of the action and ends the run with fatal_error then done.
C15_UnknownAgent ==
    UnknownAgentCase =>
        /\ ea_events = <<ActionEvent("error",
                            "Agent " \o CurAction.agent_name \o " not found", 0)>>
        /\ ts_pc = "start" /\ tool_events = << >>
        /\ \A n \in 1..Len(messages) : messages[n].agent_id # CurAction.agent_name
        /\ Len(messages) = 1 + Cardinality(Positions("action_result"))
        /\ ea_out = NoEvent =>
              /\ \E k \in Positions("action_error") :
                    /\ events[k].index = i
                    /\ events[k].content = ea_events[1].content
                    /\ \A j \in (k + 1)..Len(events) :
                          events[j].type = "done" \/ events[j].step = "fatal_error"
              /\ \A k \in Positions("action_started") : events[k].index <= i
              /\ pc \in {"fatal", "fatal_done", "terminated"}
              /\ Terminated =>
                    /\ events[Len(events) - 1].type = "progress"
                    /\ events[Len(events) - 1].step = "fatal_error"
                    /\ LastEvent = EmptyDone

\* A run whose only action names the agent "Ghost" has ended.
C15_Witness ==
    /\ UnknownAgentCase
    /\ Terminated
    /\ plan = <<Action("Ghost", "x")>>

\* ---- the Tool Dispatch Registry, one call of execute_tool
ErrorEnvelopes == {k \in 1..Len(envelopes) : envelopes[k].status = "error"}
\* The agent row exists, and so does a link of the agent to an active tool of
\* the given name.
Authorized ==
    /\ CurAction.agent_name \in DbAgents
    /\ <<CurAction.agent_name, CurAction.action_type>> \in DbLinks
    /\ CurAction.action_type \in DbActiveTools

\* C16: execute_tool calls a tool's run only for an existing agent with a link
\* to an active tool of the given name; when the agent is missing, the link is
\* missing or the tool is inactive, its stream is one error envelope and no
\* tool is invoked.
C16_RunOnlyIfAuthorized ==
    /\ run_calls > 0 => Authorized
    /\ ~Authorized =>
          /\ run_calls = 0 /\ tool_events = << >> /\ ~tool_raised
          /\ Len(envelopes) <= 1
          /\ ErrorEnvelopes = DOMAIN envelopes
          /\ ts_pc = "ended" <=> Len(envelopes) = 1

\* A call for a tool that is linked to the agent but inactive has ended.
C16_Witness ==
    /\ driver = "registry"
    /\ CurAction = Action("Copilot", "TavilySearch")
    /\ ts_pc = "ended"

\* C17: once the tool's run is called, the consumer has received one success
\* envelope per event of the tool, in order and with the event as its data,
\* followed, if the tool raised, by one error envelope that ends the stream.
C17_RelayInOrder ==
    run_calls > 0 =>
        /\ run_calls = 1
        /\ envelopes = [k \in 1..Len(tool_events) |-> WrapSuccess(tool_events[k])]
                       \o (IF tool_raised THEN <<WrapFault("tool raised")>> ELSE << >>)
        /\ tool_raised => ts_pc = "ended"

\* The tool raised after two events.
C17_Witness ==
    /\ driver = "registry"
    /\ tool_raised
    /\ Len(tool_events) = 2

\* ---- resolving a chat twice
\* Calls k and k + 1 ask for the same id, of a chat stored before call k.
SameExistingId(k) ==
    /\ calls[k].chat_id = calls[k + 1].chat_id
    /\ calls[k].chat_id \in calls[k].before
TableFailed(c) == ~c.ok /\ c.err = "database is locked"

\* C18: two calls of get_or_create_chat with the id of an existing chat both
\* return that chat, neither creates a chat record, and the stored chats are
\* the same before and after (a call the Chat table fails returns nothing).
C18_ResolveTwice ==
    \A k \in 1..(Len(calls) - 1) :
        SameExistingId(k) =>
            /\ \A c \in {calls[k], calls[k + 1]} :
                  /\ c.after = c.before
                  /\ c.ok \/ TableFailed(c)
                  /\ c.ok => c.chat = c.chat_id
            /\ calls[k + 1].after = calls[k].before

\* A chat was created, then resolved twice by its id.
C18_Witness ==
    /\ Len(calls) = 3
    /\ calls[1].ok /\ calls[1].chat \notin StoredChats
    /\ calls[2].chat_id = calls[1].chat /\ calls[2].ok
    /\ calls[3].chat_id = calls[1].chat /\ calls[3].ok

\* ---- chat resolution in a run
\* The run has a chat, and it is one that was stored before the run / one the
\* run created.
ResolvedExisting == driver = "pipeline" /\ chat \in StoredChats
CreatedChat == driver = "pipeline" /\ chat \in chats \ StoredChats

\* C19: chat_created is emitted only in a run that created its chat, and names
\* that chat; a run that resolved an existing chat emits none.
C19_ChatCreatedOnlyIfNew ==
    /\ \A k \in Positions("chat_created") : CreatedChat /\ events[k].content = chat
    /\ ResolvedExisting => Positions("chat_created") = {}

\* A run that created its chat and emitted chat_created has an action result.
C19_Witness ==
    /\ CreatedChat
    /\ Positions("chat_created") # {}
    /\ Positions("action_result") # {}

\* The run was given a chat id that names no stored chat, and chat resolution
\* is over.
MissingChatRun ==
    /\ driver = "pipeline"
    /\ chat_id # None
    /\ chat_id \notin StoredChats
    /\ pc # "init"
OwnerRequired == "Owner is required to create a new chat"
TableFault == Exc("", "database is locked")
FatalTail(text) ==
    /\ Len(events) >= 2
    /\ events[Len(events) - 1] = Progress("fatal_error", -1, text, 0)
    /\ LastEvent = EmptyDone

\* C20: for a chat id that names no chat, a run with an owner creates a chat
\* and goes on to retrieve the history, with no fatal_error from the chat
\* resolution (unless the Chat table itself fails); a run without an owner
\* creates nothing and ends with fatal_error then done.
C20_MissingChat ==
    MissingChatRun =>
        IF owner # None
        THEN \/ /\ CreatedChat
                /\ chats = StoredChats \cup {chat}
                /\ \A k \in Positions("fatal_error") :
                      /\ events[k].content # OwnerRequired
                      /\ \E j \in Positions("history_retrieved") : j < k
             \/ /\ chat = None /\ exc = TableFault /\ chats = StoredChats
        ELSE /\ chat = None /\ chats = StoredChats
             /\ exc \in {Exc("", OwnerRequired), TableFault}
             /\ pc \in {"fatal", "fatal_done", "terminated"}
             /\ Terminated => FatalTail(ExcStr(exc)) /\ Len(events) = 3

\* A run with an owner and the id of no chat has ended after an action result.
C20_Witness ==
    /\ MissingChatRun
    /\ owner # None
    /\ Terminated
    /\ Positions("action_result") # {}
    /\ Positions("fatal_error") = {}

\* ---- creation without an owner
\* The run needs a new chat (no chat id, or the id of no stored chat), has no
\* owner, and chat resolution is over.
MissingOwnerRun ==
    /\ driver = "pipeline"
    /\ chat_id \notin StoredChats
    /\ owner = None
    /\ pc # "init"

\* C21: a run that needs a new chat and has no owner creates no chat record
\* and no message record, emits no chat_created, history_retrieved or
\* user_message_saved, and ends with fatal_error followed by done.
C21_MissingOwner ==
    MissingOwnerRun =>
        /\ chats = StoredChats /\ chat = None
        /\ messages = << >>
        /\ \A s \in {"chat_created", "history_retrieved", "user_message_saved"} :
              Positions(s) = {}
        /\ pc \in {"fatal", "fatal_done", "terminated"}
        /\ pc # "fatal" => events[2] = Progress("fatal_error", -1, ExcStr(exc), 0)
        /\ Terminated => events = <<Status("Initializing chat..."),
                                    Progress("fatal_error", -1, ExcStr(exc), 0), EmptyDone>>

\* A run with neither a chat id nor an owner has ended on the missing owner.
C21_Witness ==
    /\ MissingOwnerRun
    /\ chat_id = None
    /\ Terminated
    /\ exc = Exc("", OwnerRequired)

\* ---- C22
\* A run whose collaborators may fail, and the failure of its title generation.
TitleFailed == driver = "degraded" /\ "title" \in faulted
ResolveFaults == {Exc("", OwnerRequired), TableFault}

\* C22: a failure of the title generation (the LLM raised or gave no title) is
\* never fatal: the chat is created under the fallback title made of the first
\* words of the message, and the run goes on to the history retrieval; the only
\* faults that end a run before it has a chat are the missing owner and a
\* fault of the Chat table.
C22_TitleFailureNotFatal ==
    /\ TitleFailed =>
          /\ chat \in chats \ StoredChats
          /\ titles[chat] = FallbackTitle(MessageWords)
          /\ Positions("chat_created") # {}
          /\ pc = "history" \/ Positions("history_retrieved") # {}
    /\ driver = "degraded" /\ chat = None /\ exc # NoExc => exc \in ResolveFaults

C22_Witness ==
    /\ TitleFailed
    /\ titles[chat] = "Hello..."
    /\ Positions("history_retrieved") # {}
    /\ Terminated /\ exc = NoExc

\* ---- C23
\* The recognizer's LLM call raised in this run.
RecognizerFailed == driver = "pipeline" /\ "recognizer" \in faulted
StatusPositions(text) == {k \in 1..Len(events) : events[k] = Status(text)}

\* C23 as stated: a failure of the recognizer's LLM call is fatal: the run ends
\* with fatal_error then done and emits no intention_recognized,
\* plan_generated or action_started.
C23_AsStated ==
    RecognizerFailed /\ Terminated =>
        /\ Positions("fatal_error") = {Len(events) - 1}
        /\ LastEvent = EmptyDone
        /\ \A s \in {"intention_recognized", "plan_generated", "action_started"} :
              Positions(s) = {}

\* C23: a failure of the recognizer's LLM call is not retried and is not fatal:
\* the recognizer is called once, its "error" intention is announced by the one
\* intention_recognized event, and the run goes on to the plan generation; a
\* fatal_error of such a run comes from a later step.
C23_RecognitionFailureAbsorbed ==
    RecognizerFailed =>
        /\ Cardinality(StatusPositions("Recognizing intention...")) = 1
        /\ \E k \in 1..Len(events) :
              /\ Positions("intention_recognized") = {k}
              /\ events[k].content = "error"
        /\ pc = "plan" \/ StatusPositions("Generating action plan...") # {}
        /\ exc # Exc("", "LLM unavailable")

C23_Witness ==
    /\ RecognizerFailed
    /\ Positions("plan_generated") # {}
    /\ Positions("action_result") # {}
    /\ Terminated /\ exc = NoExc

\* ---- C24
MemoryFaults == {"history", "add_user", "add_assistant"}
MemoryFailed(s) == driver = "degraded" /\ s \in faulted
RolesIn(mem) == {mem[k].role : k \in 1..Len(mem)}

\* C24: a failure inside the memory collaborator never gives fatal_error: a
\* failed history search gives the empty history, announced by
\* history_retrieved with count 0; a failed add_message is skipped, and the run
\* goes on to its next step (the user message is saved and the intention
\* recognized, the run completes with its done event).
C24_MemoryFailureAbsorbed ==
    /\ MemoryFailed("history") =>
          /\ history = << >>
          /\ \E k \in 1..Len(events) :
                /\ Positions("history_retrieved") = {k}
                /\ events[k].index = 0
          /\ pc = "save_user" \/ StatusPositions("Saving user message...") # {}
    /\ MemoryFailed("add_user") =>
          /\ "user" \notin RolesIn(memory)
          /\ Positions("user_message_saved") # {}
          /\ pc = "intent" \/ StatusPositions("Recognizing intention...") # {}
    /\ MemoryFailed("add_assistant") =>
          /\ "assistant" \notin RolesIn(memory)
          /\ Terminated /\ exc = NoExc
          /\ LastEvent = DoneEvent(all_assistant_messages)
          /\ Positions("fatal_error") = {}
    /\ driver = "degraded" /\ pc = "fatal" /\ faulted \cap MemoryFaults # {} =>
          exc # Exc("", "mem0 unavailable")

C24_Witness ==
    /\ MemoryFaults \subseteq faulted
    /\ driver = "degraded"
    /\ Positions("action_result") # {}
    /\ Terminated /\ exc = NoExc

\* ---- C25
AssistantEntries == {k \in 1..Len(memory) : memory[k].role = "assistant"}
\* The contents of the action_result events, in order of emission.
ResultContents == [n \in 1..Len(ResultPositions) |-> events[ResultPositions[n]].content]
ActionEventPositions ==
    {k \in 1..Len(events) :
        /\ events[k].type = "progress"
        /\ events[k].step \in {"action_started", "message_chunk", "action_result",
                               "action_error"}}

\* C25: a run records at most one assistant entry to the memory; it does so
\* after its last action has completed and before done, only when the contents
\* of its action_result messages joined by newlines are not empty, and the
\* entry is exactly that text; a run that ends with fatal_error records none.
C25_AssistantMemoryOnce ==
    driver = "pipeline" =>
        /\ Cardinality(AssistantEntries) <= 1
        /\ \A k \in AssistantEntries :
              /\ memory[k].content = JoinLines(ResultContents)
              /\ memory[k].content # ""
              /\ i = Len(plan)
              /\ Terminated /\ DonePositions = {Len(events)}
              /\ StatusPositions("Saving assistant responses to memory...")
                    = {Len(events) - 1}
              /\ \A p \in ActionEventPositions : p < Len(events) - 1
        /\ Positions("fatal_error") # {} => AssistantEntries = {}

\* Two actions succeeded and the run recorded their contents.
C25_Witness ==
    /\ driver = "pipeline"
    /\ Len(ResultPositions) = 2
    /\ AssistantEntries # {}

\* ---- C26
\* At most one instance was made for each tool name, and every call was handed
\* that instance.
Singletons ==
    \A name \in ToolNames :
        /\ made[name] <= 1
        /\ made[name] = 0 <=> tool_instances[name].id = 0
        /\ handed[name] \subseteq {tool_instances[name].id} \ {0}
        /\ \A other \in ToolNames \ {name} :
              tool_instances[name].id # 0 => tool_instances[other].id # tool_instances[name].id
\* A configuration that is applied again to the tool it was just applied to.
Reapplied ==
    /\ last_op'.again
    /\ last_op'.op \in {"configure", "execute"}
    /\ tool_instances[last_op.name].id # 0
Reapply == Reapplied => tool_instances' = tool_instances

\* C26: a ToolManager holds at most one instance per tool name and hands out
\* that instance at every call; a configuration applied a second time leaves
\* the tools as the first application left them.
C26_SingletonsIdempotent == [](driver = "tools" => Singletons) /\ [][Reapply]_vars

\* The headers of the one WebContentFetcher were configured twice from one
\* config.
C26_Witness ==
    /\ driver = "tools"
    /\ last_op.again /\ last_op.op = "configure" /\ last_op.name = "WebContentFetcher"
    /\ "X-Token" \in DOMAIN tool_instances["WebContentFetcher"].state.headers
    /\ made["WebContentFetcher"] = 1
    /\ handed["WebContentFetcher"] # {}

\* ---- C27
\* C27: no step of a run of process_message_stream, and no step of the
\* execute_action calls it makes, changes the catalog of agents that
\* initialize() loaded, whether the run succeeds or fails.
C27_CatalogReadOnly == [](agents = AgentCatalog) /\ [][agents' = agents]_vars

\* A run that looked up an agent the catalog does not hold, after an action of
\* the catalog's agent succeeded.
C27_Witness ==
    /\ driver = "pipeline"
    /\ Terminated
    /\ Positions("action_result") # {}
    /\ \E k \in 1..Len(plan) : k <= i + 1 /\ plan[k].agent_name \notin AgentCatalog
    /\ Positions("fatal_error") # {}
    /\ agents = AgentCatalog

\* ---- C28
\* The requests for which the pipeline could not be constructed or started.
NotStarted ==
    {k \in 1..Len(responses) :
        responses[k] = DependencyFailed \/ responses[k].status_code = 500}

\* C28: a request for which the pipeline cannot be constructed or started is
\* answered with a stream of exactly two events, fatal_error then done.
C28_StartupFallback ==
    driver = "transport" => \A k \in NotStarted : responses[k].events = <<"fatal_error", "done">>

\* ---- C29
Returned(k) == clears[k].outcome = "returned"
RuntimeEmpty(t) == t.chat = {} /\ t.message = << >> /\ t.task = {}

\* C29: when clear_runtime_data returns, the Chat, Message and Task tables are
\* empty, the messages and the tasks were deleted before the chats, and the
\* Agent, Tool and AgentTool tables are as they were; the deletions are one
\* transaction: a call that raises leaves every table as it was.
C29_ClearsRuntimeOnly ==
    driver = "maintenance" =>
        /\ \A k \in 1..Len(clears) :
              /\ Returned(k) =>
                    /\ RuntimeEmpty(clears[k].after)
                    /\ clears[k].deleted = <<"message", "task", "chat">>
              /\ ~Returned(k) => clears[k].after = clears[k].before
              /\ clears[k].after.config = clears[k].before.config
        /\ clears # << >> => CurrentTables = clears[Len(clears)].after
        /\ config_tables = [agents |-> DbAgents, tools |-> {"Answer", "TavilySearch", "Legacy"},
                            agent_tools |-> DbLinks]

\* A call returned on tables that held chats, messages and a task with a
\* subtask.
C29_Witness ==
    /\ driver = "maintenance"
    /\ Len(clears) = 1 /\ Returned(1)
    /\ Len(clears[1].before.message) = 2
    /\ Cardinality(clears[1].before.task) = 2
    /\ Cardinality(clears[1].before.chat) = 2
    /\ RuntimeEmpty(CurrentTables)

\* ---- C30
\* C30: clear_runtime_data is idempotent: a call that the database does not
\* fail returns, and a call made right after a call that returned leaves the
\* tables as that call left them, with no chats, no messages and no tasks.
C30_ClearIdempotent ==
    driver = "maintenance" =>
        \A k \in 1..Len(clears) :
            /\ clears[k].fault = "none" => Returned(k)
            /\ k > 1 /\ Returned(k - 1) /\ Returned(k) =>
                  /\ clears[k].after = clears[k - 1].after
                  /\ RuntimeEmpty(clears[k].after)
            /\ k > 1 /\ Returned(k - 1) => clears[k].after = clears[k - 1].after

\* Two calls in a row returned, the first one on tables with rows.
C30_Witness ==
    /\ driver = "maintenance"
    /\ Len(clears) >= 2 /\ Returned(1) /\ Returned(2)
    /\ ~RuntimeEmpty(clears[1].before)
    /\ clears[1].before.task # {}
    /\ RuntimeEmpty(CurrentTables)

\* ---- C31
\* The action_error events that report a stream without a terminal event.
Unexpected ==
    {k \in Positions("action_error") : events[k].content = "Action stream ended unexpectedly"}
\* What follows the report for action j: the next action, or the completion.
GoesOn(k) ==
    LET j == events[k].index IN
    IF k = Len(events)
    THEN pc = "loop" /\ i = j + 1 /\ exc = NoExc
    ELSE IF j + 1 < Len(plan)
    THEN events[k + 1] = Progress("action_started", j + 1, plan[j + 2].agent_name, 0)
    ELSE events[k + 1].type = "done"
         \/ events[k + 1] = Status("Saving assistant responses to memory...")

\* C31: when the stream of action i ends with neither a saved message nor an
\* error, the pipeline emits action_error for i with the text "Action stream
\* ended unexpectedly", no fatal_error for it, adds nothing to the context and
\* goes on with action i + 1.
C31_UnexpectedEndTolerated ==
    /\ \A k \in Unexpected : GoesOn(k)
    /\ Len(context) = 1 + Cardinality(Positions("action_result"))
    /\ Len(all_assistant_messages) = Cardinality(Positions("action_result"))

\* The first action's stream ended after a chunk without a terminal event, the
\* second action saved a message, and the run completed.
C31_Witness ==
    /\ driver = "loop"
    /\ Terminated
    /\ \E k \in Unexpected : events[k].index = 0 /\ events[k - 1].step = "message_chunk"
    /\ \E k \in Positions("action_result") : events[k].index = 1
    /\ LastEvent.type = "done"
    /\ Positions("fatal_error") = {}

\* ---- C32
\* The error events execute_action emitted for an error envelope of the tool
\* stream: the stream is over and the event is not the one of the handler.
EnvelopeErrors ==
    {k \in 1..Len(ea_events) :
        /\ ea_events[k].type = "error"
        /\ ea_events[k].agent_name = None
        /\ ts_pc = "ended"}
C32_State ==
    \A k \in EnvelopeErrors :
        /\ k = Len(ea_events)
        /\ \A j \in 1..(k - 1) : ea_events[j].type = "message_chunk"
        /\ messages = << >>
        /\ ea_pc \in {"returned", "end"}
C32_Step ==
    EnvelopeErrors # {} => UNCHANGED <<ea_events, tool_events, ts_pc, messages,
                                       content_accumulator>>

\* C32: after an error envelope execute_action emits one error event and
\* stops: it takes no further envelope, emits no further event and persists no
\* message, also when chunks were forwarded before.
C32_StopsOnErrorEnvelope == [](driver = "direct" => C32_State) /\ [][C32_Step]_vars

\* A call that forwarded a chunk, then got the error envelope of a tool that
\* raised, and was consumed to its end.
C32_Witness ==
    /\ driver = "direct"
    /\ ea_pc = "end"
    /\ Len(ea_events) = 2
    /\ ea_events[1].type = "message_chunk"
    /\ 2 \in EnvelopeErrors
    /\ ea_events[2].content = "tool raised"

\* ---- C33
\* C33: a tool stream that ends without an error envelope and without
\* accumulated content still persists one assistant message, with the
\* placeholder as content, and ends in message_saved carrying the placeholder.
C33_PlaceholderSaved ==
    (driver = "direct" /\ ea_pc \in {"saved", "end"} /\ ts_pc = "ended"
        /\ content_accumulator = << >>
        /\ ~(\E k \in 1..Len(ea_events) : ea_events[k].type = "error")) =>
            /\ Len(messages) = 1
            /\ messages[1].role = "assistant"
            /\ messages[1].content = "(Action produced no text content)"
            /\ ea_events = <<ActionEvent("message_saved", "(Action produced no text content)",
                                         messages[1].id)>>

\* The tool produced only an empty chunk and a final event; the call ended.
C33_Witness ==
    /\ driver = "direct"
    /\ ea_pc = "end"
    /\ tool_events = <<ToolEvent("content_chunk", ""), ToolEvent("final_info", "")>>
    /\ Saved
    /\ content_accumulator = << >>

\* ---- C34
\* The error events of the handler of execute_action.
HandlerErrors ==
    {k \in 1..Len(ea_events) : ea_events[k].type = "error" /\ ea_events[k].agent_name # None}
C34_State ==
    /\ \A k \in HandlerErrors :
          /\ k = Len(ea_events)
          /\ ea_events[k].agent_name = CurAction.agent_name
          /\ ea_events[k].action_type = CurAction.action_type
          /\ \A j \in 1..(k - 1) : ea_events[j].type = "message_chunk"
          /\ ea_pc \in {"returned", "end"}
    /\ (CurAction.agent_name \in agents /\ Collisions(CurAction) # {} /\ ea_pc # "start") =>
          /\ ea_events = <<FaultEvent(CollisionText, CurAction)>>
          /\ tool_events = << >>
          /\ messages = << >>
\* Message.create fails: the call leaves the save without a new message.
C34_Step ==
    (ea_pc = "save" /\ ea_pc' # "save" /\ messages' = messages) =>
        /\ ea_events' = Append(ea_events, FaultEvent("database is locked", CurAction))
        /\ ea_pc' = "returned"

\* C34: a fault inside execute_action (Message.create failing, a parameter key
\* that repeats a keyword argument of the call of execute_tool) becomes one
\* error event with the text of the fault, agent_name and action_type; it is
\* the last event of the call and no message_saved is emitted.
C34_FaultBecomesErrorEvent == [](driver = "direct" => C34_State) /\ [][C34_Step]_vars

\* A call with the parameter key "message" for a known agent has ended in the
\* error event of the handler.
C34_Witness ==
    /\ driver = "direct"
    /\ ea_pc = "end"
    /\ "message" \in Collisions(CurAction)
    /\ HandlerErrors = {1}

\* ---- C35
\* The tool of the current action has produced an error Tool Event.
ToolReportedError == \E k \in 1..Len(tool_events) : tool_events[k].type = "error"

\* C35: when the tool reports failure by an error Tool Event of its _run, the
\* action does not end in message_saved and persists no message: execute_action
\* emits error, and the run is aborted with action_error, fatal_error and done.
C35_ToolErrorAborts ==
    (driver = "pipeline" /\ ToolReportedError) =>
        /\ \A k \in 1..Len(ea_events) : ea_events[k].type # "message_saved"
        /\ \A k \in Positions("action_result") : events[k].index # i
        /\ Terminated =>
              /\ Positions("action_error") # {}
              /\ Positions("fatal_error") # {}

\* ---- C36
\* C36: concurrent calls of _run on the shared BrowserUseTool instance each
\* run a browser agent constructed for their own task; a call never runs and
\* never resets the agent handle created by another call.
C36_OwnAgentOnly ==
    \A r \in Invocations :
        /\ invocations[r].ran \in {NoHandle, r}
        /\ invocations[r].reset \in {NoHandle, r}

\* ---- C37
\* C37: get_chat_manager returns only a ChatManager whose initialize() has
\* completed, also to a request made while another awaits initialize() and to
\* a request made after initialize() raised.
C37_OnlyInitialized ==
    \A k \in 1..Len(handouts) : handouts[k] = "ready"

\* ---- C38
\* The state of a tool instance that the configuration of one authorization
\* link alone gives: the link's values over the values of a new instance.
OwnConfigState(name, config) ==
    IF config = EmptyConfig THEN NewToolState
    ELSE ApplyConfig(name, NewToolState, config).state

\* C38: the configuration in effect during a dispatch is determined by the
\* dispatching agent's link alone: nothing of the configuration an earlier
\* dispatch applied to the shared instance is left in it.
C38_OwnLinkOnly ==
    (driver = "tools" /\ last_op.op = "execute" /\ tool_instances[last_op.name].id # 0) =>
        tool_instances[last_op.name].state = OwnConfigState(last_op.name, last_op.config)

\* ---- C39
\* The rows of the Message table with role assistant.
AssistantRows == {k \in 1..Len(messages) : messages[k].role = "assistant"}
\* execute_action has persisted a message and the pipeline has not yet taken
\* its message_saved event.
SavedPending == pc = "consume" /\ ea_out.type = "message_saved"

\* C39: a run has persisted as many assistant messages as it has emitted
\* action_result events (one more while a message_saved event waits to be
\* taken), every action_result carries the id and the content of a persisted
\* assistant message of its own, and so no message belongs to an action that
\* ended in action_error.
C39_ResultsMatchStorage ==
    driver = "pipeline" =>
        /\ Cardinality(AssistantRows) =
              Cardinality(Positions("action_result")) + (IF SavedPending THEN 1 ELSE 0)
        /\ \A k \in Positions("action_result") :
              /\ events[k].msg \in AssistantRows
              /\ messages[events[k].msg].id = events[k].msg
              /\ messages[events[k].msg].content = events[k].content
              /\ \A j \in Positions("action_result") : events[j].msg = events[k].msg => j = k
        /\ \A k \in Positions("action_error") :
              \A j \in Positions("action_result") : events[j].index # events[k].index

\* A run whose first action persisted a message and whose second action ended
\* in action_error after its Message.create failed.
C39_Witness ==
    /\ driver = "pipeline"
    /\ Terminated
    /\ Cardinality(AssistantRows) = 1
    /\ \E k \in Positions("action_result") : events[k].index = 0
    /\ \E k \in Positions("action_error") :
          events[k].index = 1 /\ events[k].content = "database is locked"

\* ---- C40
\* C40: a run in which get_or_create_chat created a chat emits chat_created
\* exactly once, before history_retrieved, also when a chat id was given, was
\* not found and the chat was created for the owner.
C40_CreatedAnnounced ==
    CreatedChat =>
        /\ Cardinality(Positions("chat_created")) = 1
        /\ \A h \in Positions("history_retrieved") :
              \A c \in Positions("chat_created") : c < h

====
